---- MODULE Spec2Model ----
(***************************************************************************)
(* Model of the finance tracker's SearchEngine object (regex search with   *)
(* pattern guard, performance probe, fallback search and highlighting).    *)
(*                                                                         *)
(* JavaScript strings are TLA+ strings; a character is a string of length  *)
(* one.  A transaction's amount is held in cents (450 stands for the       *)
(* number 4.5), and numToString renders it as Number.prototype.toString    *)
(* does.  The engine is stateless: the state of the model is the call in   *)
(* progress (operation and arguments) together with what it produced        *)
(* (return value, exception, console warnings), or "init" between calls.    *)
(***************************************************************************)
EXTENDS Integers, Sequences, FiniteSets, TLC

VARIABLES
    op,            \* the operation called ("init" when no call is in progress)
    transactions,  \* the transactions argument: [kind, items]
    searchTerm,    \* the pattern / searchTerm / partialTerm argument
    searchOptions, \* the searchOptions argument of advancedSearch
    text,          \* the text argument of highlightMatches
    clock,         \* the readings performance.now() gave during the call
    outcome,       \* "none", "return" or "throw"
    retKind,       \* what was returned: "array", "input", "string", "regex", "boolean"
    result,        \* the returned array (of transactions or of suggestions)
    html,          \* the returned string
    regex,         \* the returned RegExp, or NullRegex
    dangerous,     \* the returned boolean
    warnings,      \* what the call wrote with console.warn
    parsed,        \* the options object parseSearchQuery returned
    probesRun,     \* how many test cases testPatternPerformance ran
    throwsAt,      \* the test case at which regex.test raised (NoThrow: none)
    argAfter,      \* the transactions argument as the call left it
    state,         \* AppState: this.state
    localStorage,  \* what is stored under the transactions key
    now,           \* the time: what Date.now() read last, or a later reading
                   \* once a timer has run
    ret,           \* what the AppState method just called returned
    subscribers,   \* AppState: this.subscribers, the callbacks in the order subscribed
    handles,       \* the callbacks whose unsubscribe function a caller holds
    invoked,       \* the callbacks the step just taken invoked, in order
    timers,        \* the messages of the pending auto-hide timers, oldest first
    shownBy,       \* the place in timers of the timer set by the showNotification
                   \* call that set the notification shown (0: none is pending)
    call,          \* the AppState method just called and its argument
    filtered,      \* the array getFilteredTransactions just returned
    failures       \* how many writes to localStorage have raised so far

engineVars == <<op, transactions, searchTerm, searchOptions, text, clock, outcome,
                retKind, result, html, regex, dangerous, warnings, parsed,
                probesRun, throwsAt, argAfter>>

appVars == <<state, localStorage, now, ret, subscribers, handles, invoked, timers,
             shownBy, call, filtered, failures>>

vars == <<engineVars, appVars>>

-----------------------------------------------------------------------------
(* Bounds of the model *)

MaxTx == 2
\* the most auto-hide timers pending at a time
MaxTimers == 2
\* the most writes to localStorage that raise
MaxFailures == 1
\* the most registrations in this.subscribers
MaxSubscribers == 3
\* the longest list of transactions suggestions are drawn from
MaxSuggestTx == 4
\* the longest list of transactions AppState holds
MaxAppTx == 2
\* the last reading of Date.now() (the first is 1)
MaxNow == 2
\* the most transactions of an imported file
MaxImport == 2
\* the most tags and words a query of the model is made of
MaxTokens == 3

(* SearchEngine.config *)
maxPatternLength == 100
timeout == 50
highlightClass == "highlight"

-----------------------------------------------------------------------------
(* Strings *)

Ch(s, i) == SubSeq(s, i, i)

UpperChars == "ABCDEFGHIJKLMNOPQRSTUVWXYZ"
LowerChars == "abcdefghijklmnopqrstuvwxyz"
DigitChars == "0123456789"

IsIn(c, chars) == \E i \in 1..Len(chars) : Ch(chars, i) = c

IsDigit(c) == IsIn(c, DigitChars)
\* \w of a JavaScript regular expression
IsWordChar(c) == IsIn(c, UpperChars) \/ IsIn(c, LowerChars) \/ IsDigit(c) \/ c = "_"
\* \s, over the characters of the model
IsSpace(c) == c = " "

lowerChar(c) ==
    IF IsIn(c, UpperChars)
    THEN Ch(LowerChars, CHOOSE i \in 1..Len(UpperChars) : Ch(UpperChars, i) = c)
    ELSE c

\* String.prototype.toLowerCase, character by character (the string is split
\* in halves to keep the evaluation shallow)
RECURSIVE toLowerCase(_)
toLowerCase(s) ==
    IF Len(s) = 0 THEN ""
    ELSE IF Len(s) = 1 THEN lowerChar(s)
    ELSE toLowerCase(SubSeq(s, 1, Len(s) \div 2)) \o
         toLowerCase(SubSeq(s, (Len(s) \div 2) + 1, Len(s)))

\* String.prototype.includes
includes(s, sub) ==
    \E i \in 0..(Len(s) - Len(sub)) : SubSeq(s, i + 1, i + Len(sub)) = sub

\* the first index k whose character is no whitespace, or Len(s) + 1
firstNonSpace(s) ==
    CHOOSE k \in 1..(Len(s) + 1) :
        /\ (k = Len(s) + 1 \/ ~IsSpace(Ch(s, k)))
        /\ \A j \in 1..(k - 1) : IsSpace(Ch(s, j))

\* the last index k whose character is no whitespace, or 0
lastNonSpace(s) ==
    CHOOSE k \in 0..Len(s) :
        /\ (k = 0 \/ ~IsSpace(Ch(s, k)))
        /\ \A j \in (k + 1)..Len(s) : IsSpace(Ch(s, j))

\* String.prototype.trim
trim(s) == SubSeq(s, firstNonSpace(s), lastNonSpace(s))

\* String.prototype.repeat
RECURSIVE repeat(_, _)
repeat(s, n) ==
    IF n = 0 THEN ""
    ELSE IF n = 1 THEN s
    ELSE repeat(s, n \div 2) \o repeat(s, n - (n \div 2))

RECURSIVE natToString(_)
natToString(n) ==
    IF n < 10 THEN Ch(DigitChars, n + 1)
    ELSE natToString(n \div 10) \o Ch(DigitChars, (n % 10) + 1)

\* Number.prototype.toString of the amount cents/100: no trailing zeros, no
\* decimal point for a whole number.
numToString(cents) ==
    LET whole == cents \div 100
        frac  == cents % 100
    IN  natToString(whole) \o
        (IF frac = 0 THEN ""
         ELSE "." \o Ch(DigitChars, (frac \div 10) + 1) \o
              (IF frac % 10 = 0 THEN "" ELSE Ch(DigitChars, (frac % 10) + 1)))

-----------------------------------------------------------------------------
(* isPatternDangerous: the eight dangerousIndicators, each tested against   *)
(* the pattern text.  Each operator below decides whether the indicator's   *)
(* regular expression has a match somewhere in p.                           *)

\* the first index k >= i of a ")", or Len(p) + 1
nextClose(p, i) ==
    CHOOSE k \in i..(Len(p) + 1) :
        /\ (k = Len(p) + 1 \/ Ch(p, k) = ")")
        /\ \A j \in i..(k - 1) : Ch(p, j) # ")"

\* /\([^)]*\([^)]*\([^)]*\([^)]*\(/ : a "(" followed, before the next ")",
\* by four more "(".
indDeepNesting(p) ==
    \E i \in 1..Len(p) :
        /\ Ch(p, i) = "("
        /\ Cardinality({k \in i..(nextClose(p, i) - 1) : Ch(p, k) = "("}) >= 5

\* the first index k >= i of a character that is neither \w nor \s, or
\* Len(p) + 1
runEnd(p, i) ==
    CHOOSE k \in i..(Len(p) + 1) :
        /\ (k = Len(p) + 1 \/ (~IsWordChar(Ch(p, k)) /\ ~IsSpace(Ch(p, k))))
        /\ \A j \in i..(k - 1) : IsWordChar(Ch(p, j)) \/ IsSpace(Ch(p, j))

\* /(\w+\s*){20,}/ : every repetition of the group consumes at least one word
\* character and then whitespace only, so the indicator matches exactly when
\* some run of word characters and whitespace starts with a word character
\* and holds at least 20 word characters.
indExcessiveRepetition(p) ==
    \E i \in 1..Len(p) :
        /\ IsWordChar(Ch(p, i))
        /\ Cardinality({k \in i..(runEnd(p, i) - 1) : IsWordChar(Ch(p, k))}) >= 20

\* /\.\*\.\*\.\*/
indMultipleWildcards(p) == includes(p, ".*.*.*")

\* One segment \\?[\s\S]* of /\\?[\s\S]*\\?[\s\S]*\\?[\s\S]*\\?[\s\S]*/ : from
\* position i (the index of the next character, 1..Len+1) an optional
\* backslash, then any number of any characters.
segmentEnds(p, i) ==
    {e \in i..(Len(p) + 1) : TRUE} \cup
    (IF i <= Len(p) /\ Ch(p, i) = "\\" THEN {e \in (i + 1)..(Len(p) + 1) : TRUE} ELSE {})

segmentsEnds(p, S) == UNION {segmentEnds(p, i) : i \in S}

\* the indicator is four such segments in a row, starting anywhere
indComplexSegments(p) ==
    segmentsEnds(p, segmentsEnds(p, segmentsEnds(p, segmentsEnds(p, 1..(Len(p) + 1))))) # {}

\* /\\b\w*\\b\w*\\b\w*\\b/ : four times the two characters \b, with only word
\* characters between them.
RECURSIVE skipWord(_, _)
skipWord(p, i) == IF i <= Len(p) /\ IsWordChar(Ch(p, i)) THEN skipWord(p, i + 1) ELSE i

RECURSIVE boundariesAt(_, _, _)
boundariesAt(p, i, k) ==
    /\ i + 1 <= Len(p)
    /\ SubSeq(p, i, i + 1) = "\\b"
    /\ (k = 4 \/ boundariesAt(p, skipWord(p, i + 2), k + 1))

indWordBoundaries(p) == \E i \in 1..Len(p) : boundariesAt(p, i, 1)

\* /^\s*[\s\S]{100,}\s*$/ : at least 100 characters in all
indVeryLong(p) == Len(p) >= 100

\* /\(\?R\)/
indRecursive(p) == includes(p, "(?R)")

\* /\\1\\2\\3/
indBackreferences(p) == includes(p, "\\1\\2\\3")

\* isPatternDangerous with the indicator /\\?[\s\S]*.../ left out
isPatternDangerous_noComplexSegments(pattern) ==
    \/ indDeepNesting(pattern)
    \/ indExcessiveRepetition(pattern)
    \/ indMultipleWildcards(pattern)
    \/ indWordBoundaries(pattern)
    \/ indVeryLong(pattern)
    \/ indRecursive(pattern)
    \/ indBackreferences(pattern)

isPatternDangerous(pattern) ==
    \/ indDeepNesting(pattern)
    \/ indExcessiveRepetition(pattern)
    \/ indMultipleWildcards(pattern)
    \/ indComplexSegments(pattern)
    \/ indWordBoundaries(pattern)
    \/ indVeryLong(pattern)
    \/ indRecursive(pattern)
    \/ indBackreferences(pattern)

-----------------------------------------------------------------------------
(* RegExp.  The model covers the patterns made of literal characters, ".",  *)
(* the escapes \d and \<punctuation>, groups "(...)" and alternation "|";   *)
(* the terms the model draws stay within them.  A RegExp object is the      *)
(* record [ok, source, flags]; NullRegex stands for null.                   *)

NullRegex == [ok |-> FALSE, source |-> "", flags |-> ""]

\* depth of open groups after reading p[i..], or -1 when a ")" closes nothing
\* or a backslash ends the pattern
RECURSIVE parenDepth(_, _, _)
parenDepth(p, i, depth) ==
    IF i > Len(p) THEN depth
    ELSE IF Ch(p, i) = "\\" THEN (IF i = Len(p) THEN -1 ELSE parenDepth(p, i + 2, depth))
    ELSE IF Ch(p, i) = "(" THEN parenDepth(p, i + 1, depth + 1)
    ELSE IF Ch(p, i) = ")" THEN (IF depth = 0 THEN -1 ELSE parenDepth(p, i + 1, depth - 1))
    ELSE parenDepth(p, i + 1, depth)

\* new RegExp(pattern, flags) does not throw a SyntaxError
regexSyntaxOk(p) == parenDepth(p, 1, 0) = 0

\* index of the ")" that closes the group whose body starts at i
RECURSIVE closeParen(_, _, _)
closeParen(p, i, depth) ==
    IF i > Len(p) THEN Len(p) + 1
    ELSE IF Ch(p, i) = "\\" THEN closeParen(p, i + 2, depth)
    ELSE IF Ch(p, i) = "(" THEN closeParen(p, i + 1, depth + 1)
    ELSE IF Ch(p, i) = ")" THEN (IF depth = 0 THEN i ELSE closeParen(p, i + 1, depth - 1))
    ELSE closeParen(p, i + 1, depth)

\* index of the first "|" of p[lo..hi] outside any group, or 0
RECURSIVE topBar(_, _, _)
topBar(p, lo, hi) ==
    IF lo > hi THEN 0
    ELSE IF Ch(p, lo) = "\\" THEN topBar(p, lo + 2, hi)
    ELSE IF Ch(p, lo) = "(" THEN topBar(p, closeParen(p, lo + 1, 0) + 1, hi)
    ELSE IF Ch(p, lo) = "|" THEN lo
    ELSE topBar(p, lo + 1, hi)

\* the character c of the subject matches the one-character atom at p[lo]
atomLen(p, lo) == IF Ch(p, lo) = "\\" THEN 2 ELSE 1

atomMatches(p, lo, c, flags) ==
    IF Ch(p, lo) = "\\"
    THEN (IF Ch(p, lo + 1) = "d" THEN IsDigit(c) ELSE c = Ch(p, lo + 1))
    ELSE IF Ch(p, lo) = "." THEN TRUE
    ELSE IF includes(flags, "i") THEN lowerChar(c) = lowerChar(Ch(p, lo))
    ELSE c = Ch(p, lo)

\* The ends (index of the next character of s) of the matches of p[lo..hi]
\* that start at i, in the order the backtracking matcher tries them.
RECURSIVE altEnds(_, _, _, _, _, _)
RECURSIVE catEnds(_, _, _, _, _, _)
RECURSIVE catEndsFrom(_, _, _, _, _, _)
altEnds(p, lo, hi, s, i, flags) ==
    LET b == topBar(p, lo, hi)
    IN  IF b = 0 THEN catEnds(p, lo, hi, s, i, flags)
        ELSE catEnds(p, lo, b - 1, s, i, flags) \o altEnds(p, b + 1, hi, s, i, flags)

catEnds(p, lo, hi, s, i, flags) ==
    IF lo > hi THEN <<i>>
    ELSE IF Ch(p, lo) = "("
    THEN LET c == closeParen(p, lo + 1, 0)
         IN  catEndsFrom(p, c + 1, hi, s, altEnds(p, lo + 1, c - 1, s, i, flags), flags)
    ELSE IF i <= Len(s) /\ atomMatches(p, lo, Ch(s, i), flags)
    THEN catEnds(p, lo + atomLen(p, lo), hi, s, i + 1, flags)
    ELSE <<>>

catEndsFrom(p, lo, hi, s, starts, flags) ==
    IF starts = <<>> THEN <<>>
    ELSE catEnds(p, lo, hi, s, Head(starts), flags) \o
         catEndsFrom(p, lo, hi, s, Tail(starts), flags)

matchEnds(re, s, i) == altEnds(re.source, 1, Len(re.source), s, i, re.flags)

\* RegExp.prototype.test for a regex without the g flag (no lastIndex)
regexTest(re, s) == \E i \in 1..(Len(s) + 1) : matchEnds(re, s, i) # <<>>

\* the first match at or after index from: <<start, end>>, or <<>> when none
RECURSIVE regexExec(_, _, _)
regexExec(re, s, from) ==
    IF from > Len(s) + 1 THEN <<>>
    ELSE IF matchEnds(re, s, from) # <<>> THEN <<from, Head(matchEnds(re, s, from))>>
    ELSE regexExec(re, s, from + 1)

-----------------------------------------------------------------------------
(* Pattern guard and performance probe *)

testCases ==
    << "sample transaction description", "123.45", "Food", "2024-01-01",
       repeat("a", 50), "test@example.com" >>

\* a timeout check that rejects a reading at the limit too
tooSlow_atLimit(startTime, reading) == reading - startTime >= timeout

\* the timeout check made after each test case
tooSlow(startTime, reading) == reading - startTime > timeout

\* regex.test raises nothing
NoThrow == 0

\* The loop of testPatternPerformance from test case k on.  clk[1] is
\* startTime, clk[k + 1] the reading of performance.now() after test case k;
\* throwAt is the test case at which regex.test raises (NoThrow: at none).
\* probes counts the test cases on which regex.test was called.
RECURSIVE probeFrom(_, _, _, _)
probeFrom(re, clk, k, throwAt) ==
    IF k > Len(testCases)
    THEN [threw |-> FALSE, regex |-> re, warn |-> <<>>, probes |-> Len(testCases)]
    ELSE IF k = throwAt
    THEN [threw |-> FALSE, regex |-> NullRegex, warn |-> <<"Pattern test failed:">>,
          probes |-> k]
    ELSE IF tooSlow(clk[1], clk[k + 1])
    THEN [threw |-> FALSE, regex |-> NullRegex, warn |-> <<"Search pattern too slow">>,
          probes |-> k]
    ELSE probeFrom(re, clk, k + 1, throwAt)

\* threw: new RegExp raised a SyntaxError, which the function does not catch
testPatternPerformance(pattern, flags, clk, throwAt) ==
    IF ~regexSyntaxOk(pattern)
    THEN [threw |-> TRUE, regex |-> NullRegex, warn |-> <<>>, probes |-> 0]
    ELSE probeFrom([ok |-> TRUE, source |-> pattern, flags |-> flags], clk, 1, throwAt)

\* compileSearchPattern without the length check
compileSearchPattern_noLengthCheck(pattern, flags, clk) ==
    IF pattern = "" \/ trim(pattern) = ""
    THEN [regex |-> NullRegex, warn |-> <<>>]
    ELSE LET trimmed == trim(pattern)
         IN  IF isPatternDangerous(trimmed)
             THEN [regex |-> NullRegex,
                   warn |-> <<"Potentially dangerous search pattern detected">>]
             ELSE LET t == testPatternPerformance(trimmed, flags, clk, NoThrow)
                  IN  IF t.threw
                      THEN [regex |-> NullRegex, warn |-> <<"Invalid search pattern:">>]
                      ELSE [regex |-> t.regex, warn |-> t.warn]

\* the returned RegExp (or null) and the warnings logged on the way
compileSearchPattern(pattern, flags, clk) ==
    IF pattern = "" \/ trim(pattern) = ""
    THEN [regex |-> NullRegex, warn |-> <<>>]
    ELSE LET trimmed == trim(pattern)
         IN  IF Len(trimmed) > maxPatternLength
             THEN [regex |-> NullRegex, warn |-> <<"Search pattern too long">>]
             ELSE IF isPatternDangerous(trimmed)
             THEN [regex |-> NullRegex,
                   warn |-> <<"Potentially dangerous search pattern detected">>]
             ELSE LET t == testPatternPerformance(trimmed, flags, clk, NoThrow)
                  IN  IF t.threw
                      THEN [regex |-> NullRegex, warn |-> <<"Invalid search pattern:">>]
                      ELSE [regex |-> t.regex, warn |-> t.warn]

-----------------------------------------------------------------------------
(* Transactions and the values a caller may pass as the transactions        *)
(* argument: [kind |-> "array", items |-> <<...>>], or a value that is no    *)
(* array (null, undefined, or an object such as {} or 42).                   *)

ArrayOf(items) == [kind |-> "array", items |-> items]
NotArray(kind) == [kind |-> kind, items |-> <<>>]

\* tx[field].toString() for the fields of a transaction
fieldString(tx, field) ==
    CASE field = "description" -> tx.description
      [] field = "category"    -> tx.category
      [] field = "amount"      -> numToString(tx.amount)
      [] field = "date"        -> tx.date
      [] field = "id"          -> tx.id
      [] OTHER                 -> ""

\* the order of the UTF-16 code units of the printable ASCII characters (the
\* backquote, between "_" and "a", is not among the characters of the model)
CodeOrder ==
    " !\"#$%&'()*+,-./0123456789:;<=>?@ABCDEFGHIJKLMNOPQRSTUVWXYZ[\\]^_abcdefghijklmnopqrstuvwxyz{|}~"

charCode(c) == CHOOSE i \in 1..Len(CodeOrder) : Ch(CodeOrder, i) = c

\* a <= b for JavaScript strings
RECURSIVE strLeq(_, _)
strLeq(a, b) ==
    IF a = "" THEN TRUE
    ELSE IF b = "" THEN FALSE
    ELSE IF Ch(a, 1) = Ch(b, 1) THEN strLeq(SubSeq(a, 2, Len(a)), SubSeq(b, 2, Len(b)))
    ELSE charCode(Ch(a, 1)) < charCode(Ch(b, 1))

-----------------------------------------------------------------------------
(* Matcher and fallback search *)

\* searchableFields.some(field => field && regex.test(field.toString()))
matchesTransaction(transaction, re) ==
    \E field \in {"description", "category", "amount", "date"} :
        /\ fieldString(transaction, field) # ""
        /\ regexTest(re, fieldString(transaction, field))

fallbackMatches(transaction, lowerSearch) ==
    \/ includes(toLowerCase(transaction.description), lowerSearch)
    \/ includes(toLowerCase(transaction.category), lowerSearch)
    \/ includes(numToString(transaction.amount), lowerSearch)
    \/ includes(transaction.date, lowerSearch)

RECURSIVE reverse(_)
reverse(q) == IF q = <<>> THEN <<>> ELSE reverse(Tail(q)) \o <<Head(q)>>

\* a filter that reorders its receiver in place
receiverAfterFilter_inPlace(items) == reverse(items)

\* Array.prototype.filter and forEach build their result apart from the
\* receiver, and the callbacks the engine passes only read the transaction
\* they are given: the receiver is left as it was.
receiverAfterFilter(items) == items

receiverAfterForEach(items) == items

\* fallbackSearch collecting the matches newest first
fallbackSearch_reversed(items, term) ==
    reverse(SelectSeq(items, LAMBDA tx : fallbackMatches(tx, toLowerCase(term))))

fallbackSearch(items, term) ==
    SelectSeq(items, LAMBDA tx : fallbackMatches(tx, toLowerCase(term)))

\* searchTransactions returning the list as it is when the pattern is rejected
searchTransactions_noFallback(arg, term, clk) ==
    IF term = "" \/ arg.kind # "array"
    THEN [outcome |-> "return",
          retKind |-> IF arg.kind = "object" THEN "input" ELSE "array",
          items   |-> arg.items,
          warn    |-> <<>>]
    ELSE LET c == compileSearchPattern(term, "i", clk)
         IN  [outcome |-> "return",
              retKind |-> "array",
              items   |-> IF ~c.regex.ok
                          THEN arg.items
                          ELSE SelectSeq(arg.items,
                                         LAMBDA tx : matchesTransaction(tx, c.regex)),
              warn    |-> c.warn]

\* `transactions || []` is [] for null and undefined and the value itself for
\* any other one.  The catch around filter is not reached: matchesTransaction
\* does not throw on transactions that have the four fields.
searchTransactions(arg, term, clk) ==
    IF term = "" \/ arg.kind # "array"
    THEN [outcome |-> "return",
          retKind |-> IF arg.kind = "object" THEN "input" ELSE "array",
          items   |-> arg.items,
          warn    |-> <<>>]
    ELSE LET c == compileSearchPattern(term, "i", clk)
         IN  [outcome |-> "return",
              retKind |-> "array",
              items   |-> IF ~c.regex.ok
                          THEN fallbackSearch(arg.items, term)
                          ELSE SelectSeq(arg.items,
                                         LAMBDA tx : matchesTransaction(tx, c.regex)),
              warn    |-> c.warn]

-----------------------------------------------------------------------------
(* Highlighting *)

\* escapeChar leaving the ampersand as it is
escapeChar_noAmp(c) ==
    CASE c = "<" -> "&lt;"
      [] c = ">" -> "&gt;"
      [] OTHER   -> c

\* div.textContent = text; div.innerHTML
escapeChar(c) ==
    CASE c = "&" -> "&amp;"
      [] c = "<" -> "&lt;"
      [] c = ">" -> "&gt;"
      [] OTHER   -> c

RECURSIVE escapeHtml(_)
escapeHtml(s) ==
    IF Len(s) = 0 THEN ""
    ELSE IF Len(s) = 1 THEN escapeChar(s)
    ELSE escapeHtml(SubSeq(s, 1, Len(s) \div 2)) \o
         escapeHtml(SubSeq(s, (Len(s) \div 2) + 1, Len(s)))

markOpen == "<mark class=\"" \o highlightClass \o "\">"
markClose == "</mark>"

\* escapedText.replace(regex, match => ...) with a regex that has no g flag:
\* the first match alone is replaced
replaceFirstMatch(escapedText, re) ==
    LET m == regexExec(re, escapedText, 1)
    IN  IF m = <<>> THEN escapedText
        ELSE SubSeq(escapedText, 1, m[1] - 1) \o
             markOpen \o escapeHtml(SubSeq(escapedText, m[1], m[2] - 1)) \o markClose \o
             SubSeq(escapedText, m[2], Len(escapedText))

highlightMatches(txt, term, clk) ==
    IF txt = "" \/ term = ""
    THEN [html |-> escapeHtml(txt), warn |-> <<>>]
    ELSE LET c == compileSearchPattern(term, "i", clk)
         IN  IF ~c.regex.ok
             THEN [html |-> escapeHtml(txt), warn |-> c.warn]
             ELSE [html |-> replaceFirstMatch(escapeHtml(txt), c.regex), warn |-> c.warn]

-----------------------------------------------------------------------------
(* advancedSearch and getSearchSuggestions.  In searchOptions a numeric      *)
(* bound is <<>> for null and <<v>> for the number v (in cents); a date      *)
(* bound is "" when absent (null and "" are both falsy).                     *)

textSearch(items, options, clk) ==
    IF options.term = "" THEN [items |-> items, warn |-> <<>>]
    ELSE IF options.field = "all"
    THEN LET r == searchTransactions(ArrayOf(items), options.term, clk)
         IN  [items |-> r.items, warn |-> r.warn]
    ELSE LET c == compileSearchPattern(options.term, "i", clk)
         IN  [items |-> IF c.regex.ok
                        THEN SelectSeq(items, LAMBDA tx :
                                 /\ fieldString(tx, options.field) # ""
                                 /\ regexTest(c.regex, fieldString(tx, options.field)))
                        ELSE items,
              warn  |-> c.warn]

rangeFilters(items, options) ==
    LET r1 == IF options.minAmount # <<>>
              THEN SelectSeq(items, LAMBDA tx : tx.amount >= options.minAmount[1])
              ELSE items
        r2 == IF options.maxAmount # <<>>
              THEN SelectSeq(r1, LAMBDA tx : tx.amount <= options.maxAmount[1])
              ELSE r1
        r3 == IF options.startDate # ""
              THEN SelectSeq(r2, LAMBDA tx : strLeq(options.startDate, tx.date))
              ELSE r2
        r4 == IF options.endDate # ""
              THEN SelectSeq(r3, LAMBDA tx : strLeq(tx.date, options.endDate))
              ELSE r3
    IN  IF Len(options.categories) > 0
        THEN SelectSeq(r4, LAMBDA tx :
                 \E k \in 1..Len(options.categories) : options.categories[k] = tx.category)
        ELSE r4

\* [...transactions] throws a TypeError for null, undefined and any other
\* value that is not iterable
advancedSearch(arg, options, clk) ==
    IF arg.kind # "array"
    THEN [outcome |-> "throw", retKind |-> "none", items |-> <<>>, warn |-> <<>>]
    ELSE LET t == textSearch(arg.items, options, clk)
         IN  [outcome |-> "return", retKind |-> "array",
              items |-> rangeFilters(t.items, options), warn |-> t.warn]

\* Set.prototype.add keeps the first insertion
addSuggestion(acc, v) ==
    IF \E k \in 1..Len(acc) : acc[k] = v THEN acc ELSE Append(acc, v)

RECURSIVE collectSuggestions(_, _, _)
collectSuggestions(items, partialTerm, acc) ==
    IF items = <<>> THEN acc
    ELSE LET tx == Head(items)
             lowerTerm == toLowerCase(partialTerm)
             a1 == IF includes(toLowerCase(tx.description), lowerTerm)
                   THEN addSuggestion(acc, tx.description) ELSE acc
             a2 == IF includes(toLowerCase(tx.category), lowerTerm)
                   THEN addSuggestion(a1, tx.category) ELSE a1
             a3 == IF includes(numToString(tx.amount), partialTerm)
                   THEN addSuggestion(a2, numToString(tx.amount)) ELSE a2
         IN  collectSuggestions(Tail(items), partialTerm, a3)

\* getSearchSuggestions without the limit of ten
getSearchSuggestions_noLimit(arg, partialTerm) ==
    IF partialTerm = "" \/ Len(partialTerm) < 2
    THEN [outcome |-> "return", items |-> <<>>]
    ELSE IF arg.kind # "array"
    THEN [outcome |-> "throw", items |-> <<>>]
    ELSE [outcome |-> "return",
          items |-> collectSuggestions(arg.items, partialTerm, <<>>)]

\* transactions.forEach throws a TypeError when transactions is no array
getSearchSuggestions(arg, partialTerm) ==
    IF partialTerm = "" \/ Len(partialTerm) < 2
    THEN [outcome |-> "return", items |-> <<>>]
    ELSE IF arg.kind # "array"
    THEN [outcome |-> "throw", items |-> <<>>]
    ELSE LET all == collectSuggestions(arg.items, partialTerm, <<>>)
         IN  [outcome |-> "return",
              items |-> SubSeq(all, 1, IF Len(all) < 10 THEN Len(all) ELSE 10)]

-----------------------------------------------------------------------------
(* parseSearchQuery: the four fieldPatterns, each applied once (match and    *)
(* replace without the g flag take the leftmost match only), in the order   *)
(* category, amount, date, description.                                      *)

\* the character of s at i, or "" past its ends
At(s, i) == IF i \in 1..Len(s) THEN Ch(s, i) ELSE ""

\* the literal lit (in lower case) stands at i of s, whatever the case (flag i)
startsWithCI(s, i, lit) ==
    /\ i >= 1
    /\ i + Len(lit) - 1 <= Len(s)
    /\ lowerChar(Ch(s, i)) = Ch(lit, 1)
    /\ toLowerCase(SubSeq(s, i, i + Len(lit) - 1)) = lit

\* the end of the longest run of \w from i on (i - 1 when there is none)
wordEnd(s, i) ==
    CHOOSE j \in (i - 1)..Len(s) :
        /\ \A k \in i..j : IsWordChar(Ch(s, k))
        /\ ~IsWordChar(At(s, j + 1))

\* the end of the longest run of \d from i on (i - 1 when there is none)
digitEnd(s, i) ==
    CHOOSE j \in (i - 1)..Len(s) :
        /\ \A k \in i..j : IsDigit(Ch(s, k))
        /\ ~IsDigit(At(s, j + 1))

\* the end of the longest run of [^"] from i on (i - 1 when there is none)
unquotedEnd(s, i) ==
    CHOOSE j \in (i - 1)..Len(s) :
        /\ \A k \in i..j : Ch(s, k) # "\""
        /\ (j = Len(s) \/ Ch(s, j + 1) = "\"")

\* the options object as parseSearchQuery creates it (null is <<>>, or "" for a date)
NoOptions ==
    [term |-> "", field |-> "all", minAmount |-> <<>>, maxAmount |-> <<>>,
     startDate |-> "", endDate |-> "", categories |-> <<>>]

NoMatch == [found |-> FALSE, start |-> 0, end |-> 0, groups |-> <<>>]

\* the least element of a non-empty set of indices
leftmost(I) == CHOOSE i \in I : \A j \in I : i <= j

\* /category:(\w+)/i
categoryAt(s, i) ==
    startsWithCI(s, i, "category:") /\ IsWordChar(At(s, i + 9))

matchCategory(s) ==
    LET I == {i \in 1..Len(s) : categoryAt(s, i)}
    IN  IF I = {} THEN NoMatch
        ELSE LET i == leftmost(I)
                 e == wordEnd(s, i + 9)
             IN  [found |-> TRUE, start |-> i, end |-> e,
                  groups |-> <<SubSeq(s, i + 9, e)>>]

\* the length of ([<>]=?)? at i: the operator is taken as long as it reads
operatorLen(s, i) ==
    IF At(s, i) \in {"<", ">"} THEN (IF At(s, i + 1) = "=" THEN 2 ELSE 1) ELSE 0

\* /amount:([<>]=?)?(\d+(?:\.\d{1,2})?)/i : no shorter operator lets the
\* digits begin where a longer one does not, so there is nothing to back
\* track to
amountAt(s, i) ==
    startsWithCI(s, i, "amount:") /\ IsDigit(At(s, i + 7 + operatorLen(s, i + 7)))

\* the end of \d+(?:\.\d{1,2})? whose digits begin at d
numberEnd(s, d) ==
    LET e == digitEnd(s, d)
    IN  IF At(s, e + 1) = "." /\ IsDigit(At(s, e + 2))
        THEN (IF IsDigit(At(s, e + 3)) THEN e + 3 ELSE e + 2)
        ELSE e

\* groups: the operator ("" when the group took no part) and the number
matchAmount(s) ==
    LET I == {i \in 1..Len(s) : amountAt(s, i)}
    IN  IF I = {} THEN NoMatch
        ELSE LET i == leftmost(I)
                 o == operatorLen(s, i + 7)
                 d == i + 7 + o
                 e == numberEnd(s, d)
             IN  [found |-> TRUE, start |-> i, end |-> e,
                  groups |-> <<SubSeq(s, i + 7, d - 1), SubSeq(s, d, e)>>]

\* \d{4}-\d{2}-\d{2} at i
isoDateAt(s, i) ==
    /\ i + 9 <= Len(s)
    /\ \A k \in {0, 1, 2, 3, 5, 6, 8, 9} : IsDigit(Ch(s, i + k))
    /\ Ch(s, i + 4) = "-" /\ Ch(s, i + 7) = "-"

\* /date:(\d{4}-\d{2}-\d{2})/i
dateAt(s, i) == startsWithCI(s, i, "date:") /\ isoDateAt(s, i + 5)

matchDate(s) ==
    LET I == {i \in 1..Len(s) : dateAt(s, i)}
    IN  IF I = {} THEN NoMatch
        ELSE LET i == leftmost(I)
             IN  [found |-> TRUE, start |-> i, end |-> i + 14,
                  groups |-> <<SubSeq(s, i + 5, i + 14)>>]

\* /description:"([^"]+)"/i
descriptionAt(s, i) ==
    /\ startsWithCI(s, i, "description:\"")
    /\ unquotedEnd(s, i + 13) >= i + 13
    /\ At(s, unquotedEnd(s, i + 13) + 1) = "\""

matchDescription(s) ==
    LET I == {i \in 1..Len(s) : descriptionAt(s, i)}
    IN  IF I = {} THEN NoMatch
        ELSE LET i == leftmost(I)
                 e == unquotedEnd(s, i + 13)
             IN  [found |-> TRUE, start |-> i, end |-> e + 1,
                  groups |-> <<SubSeq(s, i + 13, e)>>]

\* a replace whose result is not trimmed
removeMatch_noTrim(s, m) == SubSeq(s, 1, m.start - 1) \o SubSeq(s, m.end + 1, Len(s))

\* remainingQuery.replace(pattern, '').trim()
removeMatch(s, m) == trim(SubSeq(s, 1, m.start - 1) \o SubSeq(s, m.end + 1, Len(s)))

RECURSIVE parseNat(_)
parseNat(d) ==
    IF d = "" THEN 0
    ELSE 10 * parseNat(SubSeq(d, 1, Len(d) - 1)) +
         ((CHOOSE k \in 1..10 : Ch(DigitChars, k) = Ch(d, Len(d))) - 1)

\* parseFloat of digits with at most two decimals, in cents
parseFloat(n) ==
    LET e == digitEnd(n, 1)
        frac == SubSeq(n, e + 2, Len(n))
    IN  100 * parseNat(SubSeq(n, 1, e)) +
        (IF Len(frac) = 1 THEN 10 * parseNat(frac) ELSE parseNat(frac))

\* a case 'amount' that reads a bare number as a lower bound
applyAmount_bareIsMin(o, operator, value) ==
    IF operator = "<" \/ operator = "<=" THEN [o EXCEPT !.maxAmount = <<value>>]
    ELSE [o EXCEPT !.minAmount = <<value>>]

\* the switch's case 'amount', with the operator the match captured
applyAmount(o, operator, value) ==
    IF operator = ">" \/ operator = ">=" THEN [o EXCEPT !.minAmount = <<value>>]
    ELSE IF operator = "<" \/ operator = "<=" THEN [o EXCEPT !.maxAmount = <<value>>]
    ELSE o

\* one turn of the forEach over fieldPatterns; p is [remaining, options]
parseField(p, field) ==
    LET m == CASE field = "category" -> matchCategory(p.remaining)
               [] field = "amount" -> matchAmount(p.remaining)
               [] field = "date" -> matchDate(p.remaining)
               [] field = "description" -> matchDescription(p.remaining)
    IN  IF ~m.found THEN p
        ELSE [remaining |-> removeMatch(p.remaining, m),
              options |->
                CASE field = "category" ->
                       [p.options EXCEPT !.categories = Append(@, m.groups[1])]
                  [] field = "amount" ->
                       applyAmount(p.options,
                                   IF m.groups[1] = "" THEN "=" ELSE m.groups[1],
                                   parseFloat(m.groups[2]))
                  [] field = "date" ->
                       [p.options EXCEPT !.startDate = m.groups[1],
                                         !.endDate = m.groups[1]]
                  [] field = "description" ->
                       [p.options EXCEPT !.term = m.groups[1],
                                         !.field = "description"]]

parseSearchQuery(query) ==
    IF query = "" THEN NoOptions
    ELSE LET p0 == [remaining |-> query, options |-> NoOptions]
             p1 == parseField(p0, "category")
             p2 == parseField(p1, "amount")
             p3 == parseField(p2, "date")
             p4 == parseField(p3, "description")
         IN  IF p4.remaining # "" /\ p4.options.term = ""
             THEN [p4.options EXCEPT !.term = p4.remaining]
             ELSE p4.options

-----------------------------------------------------------------------------
(* AppState (scripts/state.js) with the Storage it saves to.  this.state is  *)
(* the record state; null is <<>> for the notification and "" for           *)
(* editingId.  An optional property of a caller's object is <<>> when it is *)
(* absent and <<v>> when it is there.                                        *)

\* the state the constructor sets up (settings and loading, which no method
\* of the model reads or writes, are left out); errors is the sequence of
\* the properties of the errors object, in the order they were added
InitialState ==
    [transactions |-> <<>>,
     currentPage  |-> "home",
     searchTerm   |-> "",
     sortConfig   |-> [key |-> "date", direction |-> "desc"],
     editingId    |-> "",
     notification |-> <<>>,
     errors       |-> <<>>]

\* the object showNotification stores
defaultDuration == 3000

\* the object showNotification stores; every call of the model leaves the
\* duration to its default
Notification(message, type) ==
    <<[message |-> message, type |-> type, duration |-> defaultDuration]>>

Result(success, error) == [success |-> success, error |-> error]

\* nothing was returned
NoResult == Result(FALSE, "no call")

\* nothing was called
NoCall == [method |-> "none", arg |-> ""]

Call(method, arg) == [method |-> method, arg |-> arg]

\* Storage.saveTransactions: every transaction of the model has the string
\* and number properties the filter asks for, so the list is stored as it
\* is; fails: localStorage.setItem raises, and the method raises in turn
saveTransactions(list, fails) ==
    IF fails THEN [threw |-> TRUE, stored |-> <<>>]
    ELSE [threw |-> FALSE, stored |-> list]

\* { id: Date.now().toString(), ...transaction, amount: parseFloat(...) }:
\* the spread comes after id, so an id of the caller's object replaces it
newTransaction(transaction, reading) ==
    [id |-> IF transaction.id # <<>> THEN transaction.id[1] ELSE natToString(reading),
     description |-> transaction.description,
     amount |-> parseFloat(transaction.amount),
     category |-> transaction.category,
     date |-> transaction.date]

\* a findIndex that gives the last index when no transaction has the id
findIndex_lastForUnknown(list, id) ==
    IF \E i \in 1..Len(list) : list[i].id = id
    THEN CHOOSE i \in 1..Len(list) :
             list[i].id = id /\ \A j \in 1..(i - 1) : list[j].id # id
    ELSE Len(list)

\* findIndex(t => t.id === id): the first index, 0 for -1
findIndex(list, id) ==
    IF \E i \in 1..Len(list) : list[i].id = id
    THEN CHOOSE i \in 1..Len(list) :
             list[i].id = id /\ \A j \in 1..(i - 1) : list[j].id # id
    ELSE 0

\* { ...transaction, ...updates, amount: updates.amount ? parseFloat(...) : ... }
updatedTransaction(transaction, updates) ==
    [transaction EXCEPT
        !.id = IF updates.id # <<>> THEN updates.id[1] ELSE @,
        !.amount = IF updates.amount # <<>> THEN parseFloat(updates.amount[1]) ELSE @]

\* splice(index, 1)
splice(list, index) == SubSeq(list, 1, index - 1) \o SubSeq(list, index + 1, Len(list))

\* the id Storage.importData gives a transaction: the reading of Date.now()
\* and the nine characters drawn with Math.random()
importedId(reading, random) == "txn_" \o natToString(reading) \o "_" \o random

\* Storage.importData's map over the valid transactions; readings[k] and
\* randoms[k] are what Date.now() and Math.random() gave for the k-th
importedTransactions(valid, readings, randoms) ==
    [k \in 1..Len(valid) |-> [valid[k] EXCEPT !.id = importedId(readings[k], randoms[k])]]

\* notifySubscribers: the callbacks invoked, in the order of this.subscribers
\* (an exception of one callback is caught and the next one is called)
notifySubscribers(subs) == subs

\* a setState that notifies whatever the update
setStateNotifies_always(previousState, nextState, subs) == notifySubscribers(subs)

\* the callbacks setState invokes: it notifies when JSON.stringify of the
\* state before the merge and of the state after it differ
setStateNotifies(previousState, nextState, subs) ==
    IF previousState # nextState THEN notifySubscribers(subs) ELSE <<>>

\* the setState({ notification: { message, type, duration } }) of showNotification
showNotification(s, message, type) ==
    [s EXCEPT !.notification = Notification(message, type)]

\* the timer callback: the notification is cleared when one is shown and its
\* message is the message of the call that set the timer
timerClears(s, message) ==
    s.notification # <<>> /\ s.notification[1].message = message

\* the function subscribe returns: filter(sub => sub !== callback)
unsubscribe(subs, callback) == SelectSeq(subs, LAMBDA sub : sub # callback)

\* setSortConfig's direction for a call without one
newDirection(currentConfig, key) ==
    IF currentConfig.key = key /\ currentConfig.direction = "asc" THEN "desc" ELSE "asc"

\* { ...this.state.errors, [key]: message }: a key already there keeps its place
setError(errors, key, message) ==
    IF \E i \in 1..Len(errors) : errors[i].key = key
    THEN [i \in 1..Len(errors) |->
             IF errors[i].key = key THEN [key |-> key, message |-> message]
             ELSE errors[i]]
    ELSE Append(errors, [key |-> key, message |-> message])

\* delete errors[key]
clearError(errors, key) == SelectSeq(errors, LAMBDA e : e.key # key)

\* the comparator of getFilteredTransactions: amounts compare as numbers,
\* dates (ISO strings of valid dates) as dates, the other keys as strings
lessThan(a, b, key) ==
    IF key = "amount" THEN a.amount < b.amount
    ELSE fieldString(a, key) # fieldString(b, key) /\
         strLeq(fieldString(a, key), fieldString(b, key))

compare(a, b, sortConfig) ==
    IF lessThan(a, b, sortConfig.key)
    THEN (IF sortConfig.direction = "asc" THEN -1 ELSE 1)
    ELSE IF lessThan(b, a, sortConfig.key)
    THEN (IF sortConfig.direction = "asc" THEN 1 ELSE -1)
    ELSE 0

\* Array.prototype.sort is stable: an element goes behind those that do not
\* compare greater than it
insertSorted(list, x, sortConfig) ==
    LET k == Cardinality({i \in 1..Len(list) :
                             \A j \in 1..i : compare(list[j], x, sortConfig) <= 0})
    IN  SubSeq(list, 1, k) \o <<x>> \o SubSeq(list, k + 1, Len(list))

RECURSIVE sort(_, _)
sort(list, sortConfig) ==
    IF list = <<>> THEN <<>>
    ELSE insertSorted(sort(SubSeq(list, 1, Len(list) - 1), sortConfig),
                      list[Len(list)], sortConfig)

\* this.state.transactions after getFilteredTransactions: with a search term
\* filter builds a new array and sort orders that one; without a term
\* "filtered" is this.state.transactions itself, and sort orders it in place
transactionsAfterSort(list, term, sortConfig) ==
    IF term # "" THEN list ELSE sort(list, sortConfig)

getFilteredTransactions(list, term, sortConfig) ==
    sort(IF term # ""
         THEN SelectSeq(list, LAMBDA transaction :
                  fallbackMatches(transaction, toLowerCase(term)))
         ELSE list,
         sortConfig)

\* an import filter that lets every item pass
isValidImport_any(tx) == TRUE

\* the filter of Storage.importData: of the typeof checks the one of the
\* amount is the one an item of the model can fail
isValidImport(tx) == tx.amountType = "number"

\* an imported item as a transaction (the type of the amount is no property)
asTransaction(tx) ==
    [id |-> tx.id, description |-> tx.description, amount |-> tx.amount,
     category |-> tx.category, date |-> tx.date]

validTransactions(items) ==
    [k \in 1..Len(SelectSeq(items, isValidImport)) |->
        asTransaction(SelectSeq(items, isValidImport)[k])]

\* JSON.parse succeeds and gives an array or an object with a transactions array
hasTransactions(json) == json.kind \in {"array", "object"}

-----------------------------------------------------------------------------
-----------------------------------------------------------------------------
(* SearchEngine.search of scripts/validators.js: one RegExp of flags gi is  *)
(* used for every test of every item.  With the g flag a RegExp keeps       *)
(* lastIndex (counted from 0) between the calls of test.                    *)

\* regex.test(s) of a regex with the g flag: the search starts at lastIndex;
\* a match leaves lastIndex at its end, a failure puts it back to 0
testGlobal(re, s, lastIndex) ==
    LET m == IF lastIndex > Len(s) THEN <<>> ELSE regexExec(re, s, lastIndex + 1)
    IN  IF m = <<>> THEN [found |-> FALSE, lastIndex |-> 0]
        ELSE [found |-> TRUE, lastIndex |-> m[2] - 1]

\* test(description) || test(category) || test(amount.toString()) || test(date):
\* the tests are made in this order until one succeeds
RECURSIVE someFieldTest(_, _, _, _)
someFieldTest(re, item, fields, lastIndex) ==
    IF fields = <<>> THEN [found |-> FALSE, lastIndex |-> lastIndex]
    ELSE LET t == testGlobal(re, fieldString(item, Head(fields)), lastIndex)
         IN  IF t.found THEN t ELSE someFieldTest(re, item, Tail(fields), t.lastIndex)

\* items.filter(...) with the lastIndex each item leaves to the next one
RECURSIVE filterGlobal(_, _, _)
filterGlobal(re, items, lastIndex) ==
    IF items = <<>> THEN <<>>
    ELSE LET t == someFieldTest(re, Head(items),
                                <<"description", "category", "amount", "date">>,
                                lastIndex)
         IN  (IF t.found THEN <<Head(items)>> ELSE <<>>) \o
             filterGlobal(re, Tail(items), t.lastIndex)

\* new RegExp(searchTerm, 'gi') raises on a pattern that is no regular
\* expression, and the catch searches for the term as a substring
search(items, term) ==
    IF term = "" \/ trim(term) = "" THEN items
    ELSE IF regexSyntaxOk(term)
    THEN filterGlobal([ok |-> TRUE, source |-> term, flags |-> "gi"], items, 0)
    ELSE SelectSeq(items, LAMBDA item : fallbackMatches(item, toLowerCase(term)))

(* The values the calls of the model are made with *)

TxPool ==
    { [id |-> "t1", description |-> "Coffee run", amount |-> 450,
       category |-> "Food", date |-> "2024-01-01"],
      [id |-> "t2", description |-> "Bus fare", amount |-> 200,
       category |-> "Transport", date |-> "2024-01-02"],
      [id |-> "t3", description |-> "Mug coffee|tea", amount |-> 1250,
       category |-> "Other", date |-> "2024-02-10"] }

TxLists == UNION {[1..n -> TxPool] : n \in 0..MaxTx}

TxArgs == {ArrayOf(items) : items \in TxLists} \cup
          {NotArray("null"), NotArray("undefined"), NotArray("object")}

Terms ==
    { "", " ", "coffee|tea", "tea", "FOOD", "2", "amp", "(a",
      "((((a))))", "(((((a)))))",
      repeat("a", 101), repeat("a|", 51), " " \o repeat("a", 100) \o " " }

\* the search patterns of the README's regex test cases
ReadmePatterns == { "coffee", "\\.\\d{2}", "food|transport" }

Patterns == Terms \cup ReadmePatterns

Texts == { "", "tea and tea", "a&b", "<b>Tea</b>" }

FilterSets ==
    { [minAmount |-> <<>>, maxAmount |-> <<>>, startDate |-> "", endDate |-> "",
       categories |-> <<>>],
      [minAmount |-> <<300>>, maxAmount |-> <<1250>>, startDate |-> "", endDate |-> "",
       categories |-> <<>>],
      [minAmount |-> <<>>, maxAmount |-> <<>>, startDate |-> "2024-01-01",
       endDate |-> "2024-01-31", categories |-> <<"Food", "Other">>] }

OptionTerms == { "", "tea", "coffee|tea", "(a" }

OptionSets ==
    { [term |-> t, field |-> f, minAmount |-> fs.minAmount, maxAmount |-> fs.maxAmount,
       startDate |-> fs.startDate, endDate |-> fs.endDate, categories |-> fs.categories] :
      t \in OptionTerms, f \in {"all", "description"}, fs \in FilterSets }

\* a history whose descriptions, categories and amounts share the text "12"
SuggestPool ==
    { [id |-> "s1", description |-> "Bus 12", amount |-> 1200,
       category |-> "Zone12", date |-> "2024-03-01"],
      [id |-> "s2", description |-> "Tram 12", amount |-> 1250,
       category |-> "Line12", date |-> "2024-03-02"],
      [id |-> "s3", description |-> "Room 121", amount |-> 12100,
       category |-> "Food12", date |-> "2024-03-03"],
      [id |-> "s4", description |-> "Table 12", amount |-> 120,
       category |-> "Dining12", date |-> "2024-03-04"] }

SuggestLists == UNION {[1..n -> SuggestPool] : n \in 0..MaxSuggestTx}

PartialTerms == { "12", "1", "BUS" }

\* the terms SearchEngine.search of validators.js is called with
SearchTerms ==
    { "", " ", "coffee", "tea", "FOOD", "2", "(a", "coffee|tea",
      "food|transport", "\\.\\d{2}" }

\* what a caller hands to addTransaction: without an id, and with one
NewTransactions ==
    { [id |-> i, description |-> "Lunch", amount |-> "15.5", category |-> "Food",
       date |-> "2024-01-15"] : i \in {<<>>, <<"1">>} }

\* what a caller hands to updateTransaction: a new amount, or a new id
Updates == { [id |-> <<>>, amount |-> <<"20">>], [id |-> <<"1">>, amount |-> <<>>] }

\* the ids a caller updates or deletes by: those of the list and one of none
CallerIds == {state.transactions[i].id : i \in 1..Len(state.transactions)} \cup {"missing"}

\* the items of an imported file: a transaction, and one whose amount is a
\* string (typeof tx.amount is not 'number')
ImportItems ==
    { [id |-> "old", description |-> "Lunch", amount |-> 1550, amountType |-> "number",
       category |-> "Food", date |-> "2024-01-15"],
      [id |-> "old", description |-> "Rent", amount |-> 90000, amountType |-> "string",
       category |-> "Home", date |-> "2024-01-31"] }

\* what importData is given: a text that is no JSON, JSON that holds no
\* array of transactions, arrays, and an export object with its array
ImportFiles ==
    { [kind |-> k, items |-> <<>>] : k \in {"unparsable", "noArray"} } \cup
    { [kind |-> "array", items |-> q] :
        q \in UNION {[1..n -> ImportItems] : n \in 0..MaxImport} } \cup
    { [kind |-> "object", items |-> [k \in 1..MaxImport |-> q]] : q \in ImportItems }

\* whether a write to localStorage raises (it may while MaxFailures allows)
Faults == IF failures < MaxFailures THEN BOOLEAN ELSE {FALSE}

\* the lists of transactions initialize() may find stored
LoadedLists ==
    { q \in TxLists : \A i, j \in 1..Len(q) : i # j => q[i].id # q[j].id }

\* the callbacks callers subscribe
Callbacks == { "render", "log" }

\* the pages navigateTo is called with
Pages == { "home", "dashboard" }

\* the keys and directions setSortConfig is called with (<<>>: no direction)
SortKeys == { "date", "description", "category", "amount" }

Directions == { <<>>, <<"asc">>, <<"desc">> }

\* the terms setSearchTerm is called with
AppSearchTerms == { "", "coffee", "2024" }

\* what showNotification is called with
Messages == { "Saved", "No changes to save" }

NotificationTypes == { "success", "warning" }

\* what setError and clearError are called with
ErrorKeys == { "amount", "date" }

ErrorMessages == { "Required" }

\* what Math.random().toString(36).substr(2, 9) may give
Randoms == { "k3j9x0q1z", "p0o9i8u7y" }

\* Date.now() never goes back
ReadingsFrom(t, n) ==
    { r \in [1..n -> t..MaxNow] : \A k \in 1..(n - 1) : r[k] <= r[k + 1] }

\* tags and words a search query is written with
Tokens ==
    { "category:Food", "category:Books", "amount:>20", "amount:>=20.5",
      "amount:20", "amount:<=5", "date:2024-01-15", "description:\"bus\"",
      "coffee" }

\* the tokens of q, one space between two of them
RECURSIVE joinTokens(_)
joinTokens(q) ==
    IF q = <<>> THEN ""
    ELSE IF Len(q) = 1 THEN q[1]
    ELSE q[1] \o " " \o joinTokens(Tail(q))

\* queries that are not tokens with single spaces between them
OddQueries ==
    { " coffee ", "amount:=20", "Category:food amount:<7", "amount:>20.555",
      "category:Food-Drink", "coffee  category:Food  tea", "date:2024-1-15" }

TokenSeqs == UNION {[1..n -> Tokens] : n \in 0..MaxTokens}

Queries == { joinTokens(q) : q \in TokenSeqs } \cup OddQueries

\* performance.now() never goes back: startTime, then one reading per test case
Clocks ==
    { c \in [1..(Len(testCases) + 1) -> {0, timeout + 1}] :
        \A k \in 1..Len(testCases) : c[k] <= c[k + 1] }

NoClock == <<>>

\* readings around the limit: well inside, at the limit, beyond it
ProbeClocks ==
    { c \in [1..(Len(testCases) + 1) -> {0, timeout, timeout + 1}] :
        \A k \in 1..Len(testCases) : c[k] <= c[k + 1] }

\* patterns that new RegExp accepts, and one it does not
ProbePatterns == { "tea", "coffee|tea", "(a" }

-----------------------------------------------------------------------------
(* The calls *)

\* no call of the search engine is in progress
Idle ==
    /\ op = "init"
    /\ transactions = NotArray("none")
    /\ searchTerm = ""
    /\ searchOptions = NoOptions
    /\ text = ""
    /\ clock = NoClock
    /\ outcome = "none"
    /\ retKind = "none"
    /\ result = <<>>
    /\ html = ""
    /\ regex = NullRegex
    /\ dangerous = FALSE
    /\ warnings = <<>>
    /\ parsed = NoOptions
    /\ probesRun = 0
    /\ throwsAt = NoThrow
    /\ argAfter = NotArray("none")

\* nothing has been called on the AppState and nothing is stored
Fresh ==
    /\ now = 1
    /\ ret = NoResult
    /\ subscribers = <<>>
    /\ handles = {}
    /\ invoked = <<>>
    /\ timers = <<>>
    /\ shownBy = 0
    /\ call = NoCall
    /\ filtered = <<>>
    /\ failures = 0

Init ==
    /\ Idle
    /\ Fresh
    /\ state = InitialState
    /\ localStorage = <<>>

\* the state after initialize() has loaded the transactions that were stored
InitLoaded ==
    /\ Idle
    /\ Fresh
    /\ \E list \in LoadedLists :
        /\ state = [InitialState EXCEPT !.transactions = list]
        /\ localStorage = list

IsPatternDangerous ==
    \E pattern \in Patterns :
        /\ op = "init"
        /\ op' = "isPatternDangerous"
        /\ parsed' = NoOptions
        /\ probesRun' = 0 /\ throwsAt' = NoThrow
        /\ argAfter' = NotArray("none")
        /\ UNCHANGED appVars
        /\ searchTerm' = pattern
        /\ dangerous' = isPatternDangerous(pattern)
        /\ outcome' = "return"
        /\ retKind' = "boolean"
        /\ transactions' = NotArray("none")
        /\ searchOptions' = NoOptions
        /\ text' = ""
        /\ clock' = NoClock
        /\ result' = <<>>
        /\ html' = ""
        /\ regex' = NullRegex
        /\ warnings' = <<>>

CompileSearchPattern ==
    \E pattern \in Patterns, clk \in Clocks :
        LET c == compileSearchPattern(pattern, "i", clk)
        IN  /\ op = "init"
            /\ op' = "compileSearchPattern"
            /\ parsed' = NoOptions
            /\ probesRun' = 0 /\ throwsAt' = NoThrow
            /\ argAfter' = NotArray("none")
            /\ UNCHANGED appVars
            /\ searchTerm' = pattern
            /\ clock' = clk
            /\ regex' = c.regex
            /\ warnings' = c.warn
            /\ outcome' = "return"
            /\ retKind' = "regex"
            /\ transactions' = NotArray("none")
            /\ searchOptions' = NoOptions
            /\ text' = ""
            /\ result' = <<>>
            /\ html' = ""
            /\ dangerous' = FALSE

SearchTransactions ==
    \E arg \in TxArgs, term \in Terms, clk \in Clocks :
        LET r == searchTransactions(arg, term, clk)
        IN  /\ op = "init"
            /\ op' = "searchTransactions"
            /\ parsed' = NoOptions
            /\ probesRun' = 0 /\ throwsAt' = NoThrow
            /\ argAfter' = IF arg.kind = "array" /\ term # ""
                        THEN ArrayOf(receiverAfterFilter(arg.items)) ELSE arg
            /\ UNCHANGED appVars
            /\ transactions' = arg
            /\ searchTerm' = term
            /\ clock' = clk
            /\ outcome' = r.outcome
            /\ retKind' = r.retKind
            /\ result' = r.items
            /\ warnings' = r.warn
            /\ searchOptions' = NoOptions
            /\ text' = ""
            /\ html' = ""
            /\ regex' = NullRegex
            /\ dangerous' = FALSE

FallbackSearch ==
    \E items \in TxLists, term \in Terms :
        /\ op = "init"
        /\ op' = "fallbackSearch"
        /\ parsed' = NoOptions
        /\ probesRun' = 0 /\ throwsAt' = NoThrow
        /\ argAfter' = ArrayOf(receiverAfterFilter(items))
        /\ UNCHANGED appVars
        /\ transactions' = ArrayOf(items)
        /\ searchTerm' = term
        /\ outcome' = "return"
        /\ retKind' = "array"
        /\ result' = fallbackSearch(items, term)
        /\ clock' = NoClock
        /\ warnings' = <<>>
        /\ searchOptions' = NoOptions
        /\ text' = ""
        /\ html' = ""
        /\ regex' = NullRegex
        /\ dangerous' = FALSE

HighlightMatches ==
    \E txt \in Texts, term \in Terms, clk \in Clocks :
        LET h == highlightMatches(txt, term, clk)
        IN  /\ op = "init"
            /\ op' = "highlightMatches"
            /\ parsed' = NoOptions
            /\ probesRun' = 0 /\ throwsAt' = NoThrow
            /\ argAfter' = NotArray("none")
            /\ UNCHANGED appVars
            /\ text' = txt
            /\ searchTerm' = term
            /\ clock' = clk
            /\ outcome' = "return"
            /\ retKind' = "string"
            /\ html' = h.html
            /\ warnings' = h.warn
            /\ transactions' = NotArray("none")
            /\ searchOptions' = NoOptions
            /\ result' = <<>>
            /\ regex' = NullRegex
            /\ dangerous' = FALSE

AdvancedSearch ==
    \E arg \in TxArgs, options \in OptionSets, clk \in Clocks :
        LET r == advancedSearch(arg, options, clk)
        IN  /\ op = "init"
            /\ op' = "advancedSearch"
            /\ parsed' = NoOptions
            /\ probesRun' = 0 /\ throwsAt' = NoThrow
            /\ argAfter' = arg
            /\ UNCHANGED appVars
            /\ transactions' = arg
            /\ searchOptions' = options
            /\ searchTerm' = options.term
            /\ clock' = clk
            /\ outcome' = r.outcome
            /\ retKind' = r.retKind
            /\ result' = r.items
            /\ warnings' = r.warn
            /\ text' = ""
            /\ html' = ""
            /\ regex' = NullRegex
            /\ dangerous' = FALSE

GetSearchSuggestions ==
    \E arg \in TxArgs, partialTerm \in Terms :
        LET r == getSearchSuggestions(arg, partialTerm)
        IN  /\ op = "init"
            /\ op' = "getSearchSuggestions"
            /\ parsed' = NoOptions
            /\ probesRun' = 0 /\ throwsAt' = NoThrow
            /\ argAfter' = IF arg.kind = "array" /\ Len(partialTerm) >= 2
                        THEN ArrayOf(receiverAfterForEach(arg.items)) ELSE arg
            /\ UNCHANGED appVars
            /\ transactions' = arg
            /\ searchTerm' = partialTerm
            /\ outcome' = r.outcome
            /\ retKind' = IF r.outcome = "return" THEN "array" ELSE "none"
            /\ result' = r.items
            /\ clock' = NoClock
            /\ warnings' = <<>>
            /\ searchOptions' = NoOptions
            /\ text' = ""
            /\ html' = ""
            /\ regex' = NullRegex
            /\ dangerous' = FALSE

TestPatternPerformance ==
    /\ op = "init"
    /\ \E pattern \in ProbePatterns, clk \in ProbeClocks, k \in 0..Len(testCases) :
        LET t == testPatternPerformance(pattern, "i", clk, k)
        IN  /\ op' = "testPatternPerformance"
            /\ searchTerm' = pattern
            /\ clock' = clk
            /\ throwsAt' = k
            /\ outcome' = IF t.threw THEN "throw" ELSE "return"
            /\ retKind' = IF t.threw THEN "none" ELSE "regex"
            /\ regex' = t.regex
            /\ warnings' = t.warn
            /\ probesRun' = t.probes
            /\ parsed' = NoOptions
            /\ argAfter' = NotArray("none")
            /\ transactions' = NotArray("none")
            /\ searchOptions' = NoOptions
            /\ text' = ""
            /\ result' = <<>>
            /\ html' = ""
            /\ dangerous' = FALSE
            /\ UNCHANGED appVars

\* getSearchSuggestions over a history long enough for more than ten
\* suggestions
SuggestFromHistory ==
    /\ op = "init"
    /\ \E items \in SuggestLists, partialTerm \in PartialTerms :
        LET r == getSearchSuggestions(ArrayOf(items), partialTerm)
        IN  /\ op' = "getSearchSuggestions"
            /\ transactions' = ArrayOf(items)
            /\ searchTerm' = partialTerm
            /\ outcome' = r.outcome
            /\ retKind' = "array"
            /\ result' = r.items
            /\ argAfter' = IF Len(partialTerm) >= 2
                            THEN ArrayOf(receiverAfterForEach(items))
                            ELSE ArrayOf(items)
            /\ parsed' = NoOptions
            /\ probesRun' = 0 /\ throwsAt' = NoThrow
            /\ clock' = NoClock
            /\ warnings' = <<>>
            /\ searchOptions' = NoOptions
            /\ text' = ""
            /\ html' = ""
            /\ regex' = NullRegex
            /\ dangerous' = FALSE
            /\ UNCHANGED appVars

ParseSearchQuery ==
    /\ op = "init"
    /\ \E query \in Queries :
        /\ op' = "parseSearchQuery"
        /\ searchTerm' = query
        /\ parsed' = parseSearchQuery(query)
        /\ outcome' = "return"
        /\ retKind' = "options"
        /\ probesRun' = 0 /\ throwsAt' = NoThrow
        /\ argAfter' = NotArray("none")
        /\ transactions' = NotArray("none")
        /\ searchOptions' = NoOptions
        /\ text' = ""
        /\ clock' = NoClock
        /\ result' = <<>>
        /\ html' = ""
        /\ regex' = NullRegex
        /\ dangerous' = FALSE
        /\ warnings' = <<>>
        /\ UNCHANGED appVars

\* the caller has taken the result; the engine keeps nothing between calls
Return ==
    /\ op # "init"
    /\ op' = "init"
    /\ parsed' = NoOptions
    /\ probesRun' = 0 /\ throwsAt' = NoThrow
    /\ argAfter' = NotArray("none")
    /\ UNCHANGED appVars
    /\ transactions' = NotArray("none")
    /\ searchTerm' = ""
    /\ searchOptions' = NoOptions
    /\ text' = ""
    /\ clock' = NoClock
    /\ outcome' = "none"
    /\ retKind' = "none"
    /\ result' = <<>>
    /\ html' = ""
    /\ regex' = NullRegex
    /\ dangerous' = FALSE
    /\ warnings' = <<>>

Next ==
    \/ Return
    \/ IsPatternDangerous
    \/ CompileSearchPattern
    \/ SearchTransactions
    \/ FallbackSearch
    \/ HighlightMatches
    \/ AdvancedSearch
    \/ GetSearchSuggestions

Spec == Init /\ [][Next]_vars

\* the calls of testPatternPerformance
NextProbe == TestPatternPerformance \/ Return

SpecProbe == Init /\ [][NextProbe]_vars

\* the calls of getSearchSuggestions over a long history
NextSuggest == SuggestFromHistory \/ Return

SpecSuggest == Init /\ [][NextSuggest]_vars

\* the calls of parseSearchQuery
NextParse == ParseSearchQuery \/ Return

SpecParse == Init /\ [][NextParse]_vars

-----------------------------------------------------------------------------
-----------------------------------------------------------------------------
(* The call of SearchEngine.search of scripts/validators.js *)

Search ==
    /\ op = "init"
    /\ \E items \in TxLists, term \in SearchTerms :
        /\ op' = "search"
        /\ transactions' = ArrayOf(items)
        /\ searchTerm' = term
        /\ outcome' = "return"
        /\ retKind' = IF term = "" \/ trim(term) = "" THEN "input" ELSE "array"
        /\ result' = search(items, term)
        /\ argAfter' = ArrayOf(receiverAfterFilter(items))
        /\ searchOptions' = NoOptions
        /\ text' = ""
        /\ clock' = NoClock
        /\ html' = ""
        /\ regex' = NullRegex
        /\ dangerous' = FALSE
        /\ warnings' = <<>>
        /\ parsed' = NoOptions
        /\ probesRun' = 0 /\ throwsAt' = NoThrow
        /\ UNCHANGED appVars

NextValidators == Search \/ Return

SpecValidators == Init /\ [][NextValidators]_vars

(* The methods of AppState *)

AddTransaction ==
    /\ Len(state.transactions) < MaxAppTx
    /\ Len(timers) < MaxTimers
    /\ \E transaction \in NewTransactions, reading \in now..MaxNow, fails \in Faults :
        LET pushed == [state EXCEPT
                          !.transactions = Append(@, newTransaction(transaction, reading))]
            s == saveTransactions(pushed.transactions, fails)
            shown == IF s.threw
                     THEN showNotification(pushed, "Failed to add transaction", "error")
                     ELSE showNotification(pushed, "Transaction added successfully",
                                           "success")
        IN  /\ now' = reading
            /\ localStorage' = IF s.threw THEN localStorage ELSE s.stored
            /\ state' = shown
            /\ invoked' = setStateNotifies(pushed, shown, subscribers) \o
                          (IF s.threw THEN <<>> ELSE notifySubscribers(subscribers))
            /\ timers' = Append(timers, shown.notification[1].message)
            /\ shownBy' = Len(timers) + 1
            /\ ret' = IF s.threw THEN Result(FALSE, "Failed to save transactions")
                      ELSE Result(TRUE, "")
            /\ call' = Call("addTransaction", "")
            /\ failures' = IF s.threw THEN failures + 1 ELSE failures
            /\ filtered' = <<>>
            /\ UNCHANGED <<subscribers, handles, engineVars>>

UpdateTransaction ==
    /\ Len(timers) < MaxTimers
    /\ \E id \in CallerIds, updates \in Updates, fails \in Faults :
        LET index == findIndex(state.transactions, id)
            replaced == [state EXCEPT
                            !.transactions[index] = updatedTransaction(@, updates)]
            s == saveTransactions(replaced.transactions, fails)
            cancelled == [replaced EXCEPT !.editingId = ""]
            failed == showNotification(IF index = 0 THEN state ELSE replaced,
                                       "Failed to update transaction", "error")
            shown == showNotification(cancelled, "Transaction updated successfully",
                                      "success")
        IN  /\ IF index = 0
               THEN /\ state' = failed
                    /\ invoked' = setStateNotifies(state, failed, subscribers)
                    /\ ret' = Result(FALSE, "Transaction not found")
                    /\ UNCHANGED localStorage
               ELSE IF s.threw
               THEN /\ state' = failed
                    /\ invoked' = setStateNotifies(replaced, failed, subscribers)
                    /\ ret' = Result(FALSE, "Failed to save transactions")
                    /\ UNCHANGED localStorage
               ELSE /\ state' = shown
                    /\ invoked' = notifySubscribers(subscribers) \o
                                  setStateNotifies(cancelled, shown, subscribers) \o
                                  notifySubscribers(subscribers)
                    /\ ret' = Result(TRUE, "")
                    /\ localStorage' = s.stored
            /\ timers' = Append(timers, state'.notification[1].message)
            /\ shownBy' = Len(timers) + 1
            /\ call' = Call("updateTransaction", id)
            /\ failures' = IF index # 0 /\ s.threw THEN failures + 1 ELSE failures
            /\ filtered' = <<>>
            /\ UNCHANGED <<now, subscribers, handles, engineVars>>

DeleteTransaction ==
    /\ Len(timers) < MaxTimers
    /\ \E id \in CallerIds, fails \in Faults :
        LET index == findIndex(state.transactions, id)
            spliced == [state EXCEPT !.transactions = splice(@, index)]
            s == saveTransactions(spliced.transactions, fails)
            failed == showNotification(IF index = 0 THEN state ELSE spliced,
                                       "Failed to delete transaction", "error")
            shown == showNotification(spliced, "Transaction deleted successfully",
                                      "success")
        IN  /\ IF index = 0
               THEN /\ state' = failed
                    /\ invoked' = setStateNotifies(state, failed, subscribers)
                    /\ ret' = Result(FALSE, "Transaction not found")
                    /\ UNCHANGED localStorage
               ELSE IF s.threw
               THEN /\ state' = failed
                    /\ invoked' = setStateNotifies(spliced, failed, subscribers)
                    /\ ret' = Result(FALSE, "Failed to save transactions")
                    /\ UNCHANGED localStorage
               ELSE /\ state' = shown
                    /\ invoked' = setStateNotifies(spliced, shown, subscribers) \o
                                  notifySubscribers(subscribers)
                    /\ ret' = Result(TRUE, "")
                    /\ localStorage' = s.stored
            /\ timers' = Append(timers, state'.notification[1].message)
            /\ shownBy' = Len(timers) + 1
            /\ call' = Call("deleteTransaction", id)
            /\ failures' = IF index # 0 /\ s.threw THEN failures + 1 ELSE failures
            /\ filtered' = <<>>
            /\ UNCHANGED <<now, subscribers, handles, engineVars>>

ImportData ==
    /\ Len(timers) < MaxTimers
    /\ \E json \in ImportFiles, fails \in Faults :
        LET valid == validTransactions(json.items)
        IN  /\ Len(state.transactions) + Len(valid) <= MaxAppTx
            /\ \E readings \in ReadingsFrom(now, Len(valid)),
                  randoms \in [1..Len(valid) -> Randoms] :
                LET imported == importedTransactions(valid, readings, randoms)
                    updatedTransactions == state.transactions \o imported
                    s == saveTransactions(updatedTransactions, fails)
                    updated == [state EXCEPT !.transactions = updatedTransactions]
                    shown == showNotification(updated,
                                 "Successfully imported " \o natToString(Len(imported)) \o
                                 " transactions", "success")
                    notParsed == showNotification(state,
                                     "Failed to import data: Failed to import data",
                                     "error")
                    notSaved == showNotification(state,
                                    "Failed to import data: Failed to save transactions",
                                    "error")
                IN  /\ now' = IF readings = <<>> THEN now ELSE readings[Len(readings)]
                    /\ IF ~hasTransactions(json)
                       THEN /\ state' = notParsed
                            /\ invoked' = setStateNotifies(state, notParsed, subscribers)
                            /\ ret' = Result(FALSE, "Failed to import data")
                            /\ UNCHANGED localStorage
                       ELSE IF s.threw
                       THEN /\ state' = notSaved
                            /\ invoked' = setStateNotifies(state, notSaved, subscribers)
                            /\ ret' = Result(FALSE, "Failed to save transactions")
                            /\ UNCHANGED localStorage
                       ELSE /\ state' = shown
                            /\ invoked' = setStateNotifies(state, updated, subscribers) \o
                                          setStateNotifies(updated, shown, subscribers)
                            /\ ret' = [success |-> TRUE, count |-> Len(imported)]
                            /\ localStorage' = s.stored
                    /\ timers' = Append(timers, state'.notification[1].message)
                    /\ shownBy' = Len(timers) + 1
                    /\ call' = Call("importData", json)
                    /\ failures' = IF hasTransactions(json) /\ s.threw THEN failures + 1
                                    ELSE failures
                    /\ filtered' = <<>>
                    /\ UNCHANGED <<subscribers, handles, engineVars>>

\* Storage.clearAllData removes every key; removeItem raising (fails) may
\* come before or after the transactions key was removed
ClearAllData ==
    /\ Len(timers) < MaxTimers
    /\ \E fails \in Faults :
        LET cleared == [state EXCEPT
                           !.transactions = <<>>, !.searchTerm = "", !.editingId = ""]
            shown == showNotification(cleared, "All data cleared successfully", "success")
            failed == showNotification(state, "Failed to clear data", "error")
        IN  /\ IF fails
               THEN /\ state' = failed
                    /\ invoked' = setStateNotifies(state, failed, subscribers)
                    /\ ret' = Result(FALSE, "Failed to clear data")
                    /\ localStorage' \in {localStorage, <<>>}
               ELSE /\ state' = shown
                    /\ invoked' = setStateNotifies(state, cleared, subscribers) \o
                                  setStateNotifies(cleared, shown, subscribers)
                    /\ ret' = Result(TRUE, "")
                    /\ localStorage' = <<>>
            /\ timers' = Append(timers, state'.notification[1].message)
            /\ shownBy' = Len(timers) + 1
            /\ call' = Call("clearAllData", "")
            /\ failures' = IF fails THEN failures + 1 ELSE failures
            /\ filtered' = <<>>
            /\ UNCHANGED <<now, subscribers, handles, engineVars>>

StartEditing ==
    \E id \in CallerIds :
        /\ state' = [state EXCEPT !.editingId = id]
        /\ invoked' = notifySubscribers(subscribers)
        /\ ret' = NoResult
        /\ call' = Call("startEditing", id)
        /\ filtered' = <<>>
        /\ UNCHANGED <<failures, localStorage, now, subscribers, handles, timers, shownBy,
                       engineVars>>

CancelEditing ==
    /\ state' = [state EXCEPT !.editingId = ""]
    /\ invoked' = notifySubscribers(subscribers)
    /\ ret' = NoResult
    /\ call' = Call("cancelEditing", "")
    /\ filtered' = <<>>
    /\ UNCHANGED <<failures, localStorage, now, subscribers, handles, timers, shownBy, engineVars>>

NavigateTo ==
    \E page \in Pages :
        LET next == IF state.currentPage # page
                    THEN [state EXCEPT !.currentPage = page, !.editingId = ""]
                    ELSE state
        IN  /\ state' = next
            /\ invoked' = setStateNotifies(state, next, subscribers)
            /\ ret' = NoResult
            /\ call' = Call("navigateTo", page)
            /\ filtered' = <<>>
            /\ UNCHANGED <<failures, localStorage, now, subscribers, handles, timers, shownBy,
                           engineVars>>

SetSearchTerm ==
    \E term \in AppSearchTerms :
        LET next == [state EXCEPT !.searchTerm = term]
        IN  /\ state' = next
            /\ invoked' = setStateNotifies(state, next, subscribers)
            /\ ret' = NoResult
            /\ call' = Call("setSearchTerm", term)
            /\ filtered' = <<>>
            /\ UNCHANGED <<failures, localStorage, now, subscribers, handles, timers, shownBy,
                           engineVars>>

SetSortConfig ==
    \E key \in SortKeys, direction \in Directions :
        LET next == [state EXCEPT !.sortConfig =
                        [key |-> key,
                         direction |-> IF direction # <<>> THEN direction[1]
                                       ELSE newDirection(state.sortConfig, key)]]
        IN  /\ state' = next
            /\ invoked' = setStateNotifies(state, next, subscribers)
            /\ ret' = NoResult
            /\ call' = Call("setSortConfig", [key |-> key, direction |-> direction])
            /\ filtered' = <<>>
            /\ UNCHANGED <<failures, localStorage, now, subscribers, handles, timers, shownBy,
                           engineVars>>

GetFilteredTransactions ==
    /\ state' = [state EXCEPT !.transactions =
                    transactionsAfterSort(@, state.searchTerm, state.sortConfig)]
    /\ filtered' = getFilteredTransactions(state.transactions, state.searchTerm,
                                           state.sortConfig)
    /\ invoked' = <<>>
    /\ ret' = NoResult
    /\ call' = Call("getFilteredTransactions", "")
    /\ UNCHANGED <<failures, localStorage, now, subscribers, handles, timers, shownBy, engineVars>>

ShowNotification ==
    /\ Len(timers) < MaxTimers
    /\ \E message \in Messages, type \in NotificationTypes :
        LET shown == showNotification(state, message, type)
        IN  /\ state' = shown
            /\ invoked' = setStateNotifies(state, shown, subscribers)
            /\ timers' = Append(timers, message)
            /\ shownBy' = Len(timers) + 1
            /\ ret' = NoResult
            /\ call' = Call("showNotification", message)
            /\ filtered' = <<>>
            /\ UNCHANGED <<failures, localStorage, now, subscribers, handles, engineVars>>

HideNotification ==
    LET next == [state EXCEPT !.notification = <<>>]
    IN  /\ state' = next
        /\ invoked' = setStateNotifies(state, next, subscribers)
        /\ shownBy' = 0
        /\ ret' = NoResult
        /\ call' = Call("hideNotification", "")
        /\ filtered' = <<>>
        /\ UNCHANGED <<failures, localStorage, now, subscribers, handles, timers, engineVars>>

\* the callback of the oldest pending timer runs (every timer of the model
\* has the default duration, so the timers expire in the order they were
\* set); that is defaultDuration milliseconds after it was set, so Date.now()
\* reads later from then on
TimerExpires ==
    /\ timers # <<>>
    /\ now < MaxNow
    /\ LET message == Head(timers)
           next == IF timerClears(state, message)
                   THEN [state EXCEPT !.notification = <<>>]
                   ELSE state
       IN  /\ state' = next
           /\ invoked' = setStateNotifies(state, next, subscribers)
           /\ timers' = Tail(timers)
           /\ shownBy' = IF timerClears(state, message) \/ shownBy = 0 THEN 0
                         ELSE shownBy - 1
           /\ ret' = NoResult
           /\ call' = Call("timeout", message)
           /\ filtered' = <<>>
           /\ now' = now + 1
           /\ UNCHANGED <<failures, localStorage, subscribers, handles, engineVars>>

SetError ==
    \E key \in ErrorKeys, message \in ErrorMessages :
        LET next == [state EXCEPT !.errors = setError(@, key, message)]
        IN  /\ state' = next
            /\ invoked' = setStateNotifies(state, next, subscribers)
            /\ ret' = NoResult
            /\ call' = Call("setError", key)
            /\ filtered' = <<>>
            /\ UNCHANGED <<failures, localStorage, now, subscribers, handles, timers, shownBy,
                           engineVars>>

ClearError ==
    \E key \in ErrorKeys :
        LET next == [state EXCEPT !.errors = clearError(@, key)]
        IN  /\ state' = next
            /\ invoked' = setStateNotifies(state, next, subscribers)
            /\ ret' = NoResult
            /\ call' = Call("clearError", key)
            /\ filtered' = <<>>
            /\ UNCHANGED <<failures, localStorage, now, subscribers, handles, timers, shownBy,
                           engineVars>>

ClearAllErrors ==
    LET next == [state EXCEPT !.errors = <<>>]
    IN  /\ state' = next
        /\ invoked' = setStateNotifies(state, next, subscribers)
        /\ ret' = NoResult
        /\ call' = Call("clearAllErrors", "")
        /\ filtered' = <<>>
        /\ UNCHANGED <<failures, localStorage, now, subscribers, handles, timers, shownBy,
                       engineVars>>

Subscribe ==
    /\ Len(subscribers) < MaxSubscribers
    /\ \E callback \in Callbacks :
        /\ subscribers' = Append(subscribers, callback)
        /\ handles' = handles \cup {callback}
        /\ invoked' = <<>>
        /\ ret' = NoResult
        /\ call' = Call("subscribe", callback)
        /\ filtered' = <<>>
        /\ UNCHANGED <<failures, state, localStorage, now, timers, shownBy, engineVars>>

\* a caller calls a function that subscribe returned
Unsubscribe ==
    \E callback \in handles :
        /\ subscribers' = unsubscribe(subscribers, callback)
        /\ invoked' = <<>>
        /\ ret' = NoResult
        /\ call' = Call("unsubscribe", callback)
        /\ filtered' = <<>>
        /\ UNCHANGED <<failures, state, localStorage, now, handles, timers, shownBy, engineVars>>

NextApp ==
    \/ AddTransaction
    \/ UpdateTransaction
    \/ DeleteTransaction
    \/ ImportData
    \/ TimerExpires

SpecApp == Init /\ [][NextApp]_vars

\* the methods that set or use editingId
NextEdit ==
    \/ StartEditing
    \/ CancelEditing
    \/ AddTransaction
    \/ UpdateTransaction
    \/ DeleteTransaction
    \/ NavigateTo
    \/ ImportData
    \/ ClearAllData
    \/ TimerExpires

SpecEdit == Init /\ [][NextEdit]_vars

\* editing, updating and deleting the transactions that were loaded, in the
\* time before the first timer runs
NextStore ==
    \/ StartEditing
    \/ UpdateTransaction
    \/ DeleteTransaction

SpecStore == InitLoaded /\ [][NextStore]_vars

\* importing into the transactions that were loaded
NextImport == ImportData \/ TimerExpires

SpecImport == InitLoaded /\ [][NextImport]_vars

\* subscribers and the calls of setState that may or may not notify them
NextSubscribe ==
    \/ Subscribe
    \/ Unsubscribe
    \/ SetSearchTerm
    \/ ShowNotification
    \/ HideNotification
    \/ SetError
    \/ ClearError
    \/ ClearAllErrors
    \/ TimerExpires

SpecSubscribe == Init /\ [][NextSubscribe]_vars

\* searching and sorting the transactions that were loaded
NextView == SetSearchTerm \/ SetSortConfig \/ GetFilteredTransactions

SpecView == InitLoaded /\ [][NextView]_vars

-----------------------------------------------------------------------------
(* Notions the properties are stated with *)

\* r holds elements of q only, each at most as often and in the same order
RECURSIVE IsSubsequence(_, _)
IsSubsequence(r, q) ==
    IF r = <<>> THEN TRUE
    ELSE IF q = <<>> THEN FALSE
    ELSE IF Head(r) = Head(q) THEN IsSubsequence(Tail(r), Tail(q))
    ELSE IsSubsequence(r, Tail(q))

IsLetter(c) == IsIn(c, UpperChars) \/ IsIn(c, LowerChars)

\* an alternation of plain words, such as "coffee|tea" or "tea", that shows
\* none of the red flags of the pattern guard
IsWordAlternation(t) ==
    /\ Len(t) \in 1..19
    /\ \A i \in 1..Len(t) : IsLetter(Ch(t, i)) \/ Ch(t, i) = "|"
    /\ Ch(t, 1) # "|" /\ Ch(t, Len(t)) # "|"
    /\ ~includes(t, "||")

\* every probe of the call ended within the budget
InBudget(clk) == \A k \in 2..Len(clk) : clk[k] - clk[1] <= timeout

\* the pattern t as the spec's approved matcher
ApprovedPattern(t) == [ok |-> TRUE, source |-> trim(t), flags |-> "i"]

\* p holds groups nested n or more levels deep: some "(" is the n-th one
\* still open
HasNesting(p, n) ==
    \E i \in 1..Len(p) :
        /\ Ch(p, i) = "("
        /\ Cardinality({k \in 1..i : Ch(p, k) = "("}) -
           Cardinality({k \in 1..i : Ch(p, k) = ")"}) >= n

StartsAt(h, i, piece) ==
    i + Len(piece) - 1 <= Len(h) /\ SubSeq(h, i, i + Len(piece) - 1) = piece

EndsAt(h, i, piece) ==
    i - Len(piece) + 1 >= 1 /\ SubSeq(h, i - Len(piece) + 1, i) = piece

\* in h every "&" opens an entity written by escapeHtml, every "<" opens an
\* inserted marker tag and every ">" closes one
SafeMarkup(h) ==
    \A i \in 1..Len(h) :
        /\ Ch(h, i) = "&" =>
               \E e \in {"&amp;", "&lt;", "&gt;"} : StartsAt(h, i, e)
        /\ Ch(h, i) = "<" => StartsAt(h, i, markOpen) \/ StartsAt(h, i, markClose)
        /\ Ch(h, i) = ">" => EndsAt(h, i, markOpen) \/ EndsAt(h, i, markClose)

\* the number of places of h where piece starts
CountOccurrences(h, piece) == Cardinality({i \in 1..Len(h) : StartsAt(h, i, piece)})

\* the number of non-overlapping matches of re in s, from index from on
RECURSIVE CountMatches(_, _, _)
CountMatches(re, s, from) ==
    LET m == regexExec(re, s, from)
    IN  IF m = <<>> THEN 0
        ELSE 1 + CountMatches(re, s, IF m[2] > m[1] THEN m[2] ELSE m[2] + 1)

IsArrayCall(o) == op = o /\ transactions.kind = "array"

Rejected(term, clk) == ~compileSearchPattern(term, "i", clk).regex.ok

-----------------------------------------------------------------------------
(* Properties *)

\* C1: for a term that is an alternation of plain words, searchTransactions
\* returns exactly the transactions of T for which the pattern matches, case
\* insensitively, one of description, category, stringified amount or date
\* (T = [Coffee run, Bus fare] and "coffee|tea" give [Coffee run]).
C1_AlternationSearchesAsRegex ==
    (IsArrayCall("searchTransactions") /\ IsWordAlternation(searchTerm) /\ InBudget(clock))
    => /\ outcome = "return"
       /\ result = SelectSeq(transactions.items,
                             LAMBDA tx : matchesTransaction(tx, ApprovedPattern(searchTerm)))

\* C2: for every non-empty term that compileSearchPattern rejects,
\* searchTransactions(T, t) is fallbackSearch(T, t): the same transactions in
\* the same order.
C2_FallbackEquivalence ==
    (IsArrayCall("searchTransactions") /\ searchTerm # "" /\ Rejected(searchTerm, clock))
    => /\ outcome = "return"
       /\ retKind = "array"
       /\ result = fallbackSearch(transactions.items, searchTerm)

C2_Witness ==
    /\ IsArrayCall("searchTransactions")
    /\ searchTerm = "coffee|tea"
    /\ Rejected(searchTerm, clock)
    /\ Len(transactions.items) = 2
    /\ Len(result) = 1

\* C3: searchTransactions(T, t) is a subsequence of T: elements of T only,
\* each at most as often as in T, in the order of T.
C3_ResultIsSubsequence ==
    IsArrayCall("searchTransactions")
    => /\ outcome = "return"
       /\ retKind = "array"
       /\ IsSubsequence(result, transactions.items)

C3_Witness ==
    /\ IsArrayCall("searchTransactions")
    /\ searchTerm # ""
    /\ Len(result) = 2
    /\ result[1] # result[2]

\* C4: searching the result of searchTransactions(T, t) for t again gives
\* the same list, whatever the probe of the second call measures.
C4_SearchIdempotent ==
    IsArrayCall("searchTransactions")
    => \A clk \in Clocks :
           searchTransactions(ArrayOf(result), searchTerm, clk).items = result

C4_Witness ==
    /\ IsArrayCall("searchTransactions")
    /\ searchTerm # ""
    /\ result # <<>>
    /\ result # transactions.items

\* C5: the string highlightMatches returns holds no "<", ">" or "&" of the
\* original text unescaped: they occur only in the inserted mark tags and in
\* the entities of the escaping, and no tag splits an entity.
C5_HighlightIsSafeMarkup ==
    op = "highlightMatches" => (outcome = "return" /\ SafeMarkup(html))

C5_Witness ==
    /\ op = "highlightMatches"
    /\ text = "a&b"
    /\ searchTerm = "amp"
    /\ html = "a&amp;b"

\* C6: with a term the guard is meant to approve, highlightMatches wraps
\* every non-overlapping match of the pattern in the escaped text in a
\* marker ("tea and tea" with "tea" gets two).
C6_HighlightsEveryMatch ==
    (op = "highlightMatches" /\ text # "" /\ IsWordAlternation(searchTerm) /\ InBudget(clock))
    => CountOccurrences(html, markOpen) =
           CountMatches(ApprovedPattern(searchTerm), escapeHtml(text), 1)

\* C7: when compileSearchPattern rejects the term, searchTransactions and
\* advancedSearch with that term alone (field "all" or a specific field)
\* return the case-insensitive substring filter of T, never the unfiltered
\* list and never an exception.
C7_RejectionDegradesToFallback ==
    (/\ IsArrayCall("searchTransactions") \/ IsArrayCall("advancedSearch")
     /\ searchTerm # ""
     /\ Rejected(searchTerm, clock)
     /\ searchOptions.minAmount = <<>> /\ searchOptions.maxAmount = <<>>
     /\ searchOptions.startDate = "" /\ searchOptions.endDate = ""
     /\ searchOptions.categories = <<>>)
    => /\ outcome = "return"
       /\ result = fallbackSearch(transactions.items, searchTerm)

\* C8: searchTransactions, advancedSearch and getSearchSuggestions called
\* with transactions that are no array return the input unchanged or an empty
\* list and never raise.
C8_NonArrayNeverRaises ==
    (/\ op \in {"searchTransactions", "advancedSearch", "getSearchSuggestions"}
     /\ transactions.kind # "array")
    => /\ outcome = "return"
       /\ retKind = "input" \/ (retKind = "array" /\ result = <<>>)

\* C9: compileSearchPattern returns null for every pattern whose trimmed
\* length exceeds 100, whatever its content, on the length check itself:
\* before the danger check, the compilation and the probe.
C9_TooLongRejected ==
    (op = "compileSearchPattern" /\ Len(trim(searchTerm)) > maxPatternLength)
    => /\ ~regex.ok
       /\ warnings = <<"Search pattern too long">>

C9_Witness ==
    /\ op = "compileSearchPattern"
    /\ searchTerm = repeat("a", 101)
    /\ ~regex.ok

\* C10: a pattern with four or more levels of nested groups is dangerous:
\* isPatternDangerous returns true and compileSearchPattern returns null.
C10_DeepNestingRejected ==
    /\ (op = "isPatternDangerous" /\ HasNesting(searchTerm, 4)) => dangerous
    /\ (op = "compileSearchPattern" /\ HasNesting(trim(searchTerm), 4)) => ~regex.ok

C10_Witness ==
    /\ op = "isPatternDangerous"
    /\ searchTerm = "((((a))))"
    /\ ~HasNesting(searchTerm, 5)
    /\ dangerous

\* C11: the search patterns of the README's regex test cases ("coffee",
\* "\.\d{2}", "food|transport") are accepted: isPatternDangerous returns
\* false for each, and compileSearchPattern returns a matcher for each when
\* the six probes run within the 50 ms budget.
C11_ReadmePatternsAccepted ==
    /\ (op = "isPatternDangerous" /\ searchTerm \in ReadmePatterns) => ~dangerous
    /\ (op = "compileSearchPattern" /\ searchTerm \in ReadmePatterns /\ InBudget(clock))
       => regex.ok

\* the pieces of s between its spaces
RECURSIVE SplitAtSpaces(_)
SplitAtSpaces(s) ==
    IF ~includes(s, " ") THEN <<s>>
    ELSE LET k == CHOOSE i \in 1..Len(s) :
                      Ch(s, i) = " " /\ \A j \in 1..(i - 1) : Ch(s, j) # " "
         IN  <<SubSeq(s, 1, k - 1)>> \o SplitAtSpaces(SubSeq(s, k + 1, Len(s)))

\* the tags and words the query in searchTerm is written with
Written == SplitAtSpaces(searchTerm)

IsCategoryTag(tok) == StartsAt(tok, 1, "category:")
IsAmountTag(tok) == StartsAt(tok, 1, "amount:")
IsFreeWord(tok) == tok = "coffee"

CategoryTags(q) == {i \in DOMAIN q : IsCategoryTag(q[i])}
AmountTags(q) == {i \in DOMAIN q : IsAmountTag(q[i])}

\* the word of a category tag, and the number (in cents) of an amount tag
CategoryWord(tok) == SubSeq(tok, Len("category:") + 1, Len(tok))
TagNumber(tok) ==
    CASE tok = "amount:>20" -> 2000
      [] tok = "amount:>=20.5" -> 2050
      [] tok = "amount:20" -> 2000
      [] tok = "amount:<=5" -> 500

\* the text of q that is left when its tags are taken out
FreeText(q) ==
    trim(joinTokens([i \in DOMAIN q |-> IF IsFreeWord(q[i]) THEN q[i] ELSE ""]))

\* one category tag, one amount tag with ">" or ">=", and free words
IsTaggedQuery(q) ==
    /\ Cardinality(CategoryTags(q)) = 1
    /\ Cardinality(AmountTags(q)) = 1
    /\ \E i \in DOMAIN q : q[i] \in {"amount:>20", "amount:>=20.5"}
    /\ \A i \in DOMAIN q : IsCategoryTag(q[i]) \/ IsAmountTag(q[i]) \/ IsFreeWord(q[i])

\* C12: for a query of one category tag, one amount tag with ">" or ">=" and
\* free text, parseSearchQuery returns categories = [the word], minAmount =
\* the number, term = the remaining text trimmed, field "all", and maxAmount,
\* startDate and endDate null.
C12_TaggedQueryParsed ==
    op = "parseSearchQuery"
    => LET q == Written
       IN  IsTaggedQuery(q)
           => \E c, a \in DOMAIN q :
                  /\ IsCategoryTag(q[c]) /\ IsAmountTag(q[a])
                  /\ parsed = [term |-> FreeText(q), field |-> "all",
                               minAmount |-> <<TagNumber(q[a])>>, maxAmount |-> <<>>,
                               startDate |-> "", endDate |-> "",
                               categories |-> <<CategoryWord(q[c])>>]

C12_Witness ==
    /\ op = "parseSearchQuery"
    /\ searchTerm = "category:Food amount:>20 coffee"
    /\ parsed.categories = <<"Food">>
    /\ parsed.minAmount = <<2000>>
    /\ parsed.term = "coffee"

\* C17: an amount tag without a comparison operator ("amount:20") sets
\* neither minAmount nor maxAmount, and the tag is still taken out of the
\* free-text term.
C17_BareAmountSetsNoBound ==
    op = "parseSearchQuery"
    => LET q == Written
       IN  (\E a \in DOMAIN q : AmountTags(q) = {a} /\ q[a] = "amount:20")
           => /\ parsed.minAmount = <<>>
              /\ parsed.maxAmount = <<>>
              /\ ~includes(parsed.term, "amount:")

C17_Witness ==
    /\ op = "parseSearchQuery"
    /\ searchTerm = "amount:20 coffee"
    /\ parsed.minAmount = <<>>
    /\ parsed.maxAmount = <<>>
    /\ parsed.term = "coffee"

\* the words of the category tags of q, in the order of the query
RECURSIVE CategoryWords(_)
CategoryWords(q) ==
    IF q = <<>> THEN <<>>
    ELSE (IF IsCategoryTag(Head(q)) THEN <<CategoryWord(Head(q))>> ELSE <<>>)
         \o CategoryWords(Tail(q))

\* C18: parseSearchQuery takes every recognised tag out of the term: the
\* returned term holds no substring that matches a tag pattern, and every
\* category:<word> of the query is appended to categories
\* ("category:Food category:Books" gives ["Food", "Books"] and an empty term).
C18_EveryTagConsumed ==
    op = "parseSearchQuery"
    => /\ ~matchCategory(parsed.term).found
       /\ ~matchAmount(parsed.term).found
       /\ ~matchDate(parsed.term).found
       /\ ~matchDescription(parsed.term).found
       /\ parsed.categories = CategoryWords(Written)

\* the texts of tx a term is looked for in
SearchedTexts(tx, field) ==
    IF field = "all"
    THEN {tx.description, tx.category, numToString(tx.amount), tx.date}
    ELSE {fieldString(tx, field)}

\* tx passes the text filter: the pattern matches a searched text, or, for a
\* term the guard turns down, a searched text holds the term whatever the case
MatchesTerm(tx, o, clk) ==
    IF IsWordAlternation(o.term) /\ InBudget(clk)
    THEN \E f \in SearchedTexts(tx, o.field) : regexTest(ApprovedPattern(o.term), f)
    ELSE \E f \in SearchedTexts(tx, o.field) :
             includes(toLowerCase(f), toLowerCase(o.term))

\* tx passes every filter that o supplies
PassesFilters(tx, o, clk) ==
    /\ o.term # "" => MatchesTerm(tx, o, clk)
    /\ o.minAmount # <<>> => tx.amount >= o.minAmount[1]
    /\ o.maxAmount # <<>> => tx.amount <= o.maxAmount[1]
    /\ o.startDate # "" => strLeq(o.startDate, tx.date)
    /\ o.endDate # "" => strLeq(tx.date, o.endDate)
    /\ o.categories # <<>> => \E k \in 1..Len(o.categories) : o.categories[k] = tx.category

\* C13: advancedSearch returns exactly the transactions, in their original
\* order, that pass all of the supplied filters (text term, amount >= min,
\* amount <= max, date >= start, date <= end, category among the
\* categories); a filter that is not supplied restricts nothing.
C13_AdvancedSearchAppliesAllFilters ==
    IsArrayCall("advancedSearch")
    => /\ outcome = "return"
       /\ result = SelectSeq(transactions.items,
                             LAMBDA tx : PassesFilters(tx, searchOptions, clock))

\* the description, category and stringified amount of each transaction, in
\* the order getSearchSuggestions looks at them
RECURSIVE SuggestionSources(_)
SuggestionSources(items) ==
    IF items = <<>> THEN <<>>
    ELSE << [kind |-> "text", value |-> Head(items).description],
            [kind |-> "text", value |-> Head(items).category],
            [kind |-> "amount", value |-> numToString(Head(items).amount)] >>
         \o SuggestionSources(Tail(items))

\* a description or category holds the term whatever the case, a stringified
\* amount holds it as it is
HoldsTerm(src, term) ==
    IF src.kind = "text" THEN includes(toLowerCase(src.value), toLowerCase(term))
    ELSE includes(src.value, term)

\* the places of the suggestion sources src that hold the term
Candidates(src, term) == {k \in 1..Len(src) : HoldsTerm(src[k], term)}

\* where the string v is first seen among the candidates (0: nowhere)
FirstSeen(src, term, v) ==
    LET K == {k \in Candidates(src, term) : src[k].value = v}
    IN  IF K = {} THEN 0 ELSE CHOOSE k \in K : \A j \in K : k <= j

\* C14: getSearchSuggestions returns at most ten strings without duplicates,
\* in first-seen order (per transaction: description, category, stringified
\* amount); each is a description or category that holds the term whatever
\* the case, or a stringified amount that holds the term.
C14_SuggestionsAreFirstTenDistinct ==
    (IsArrayCall("getSearchSuggestions") /\ Len(searchTerm) >= 2)
    => LET src == SuggestionSources(transactions.items)
           seen == [k \in 1..Len(result) |-> FirstSeen(src, searchTerm, result[k])]
       IN  /\ outcome = "return"
           /\ Len(result) <= 10
           /\ \A k \in 1..Len(result) : seen[k] > 0
           /\ \A k \in 1..(Len(result) - 1) : seen[k] < seen[k + 1]
           /\ \A c \in Candidates(src, searchTerm) :
                  \/ \E k \in 1..Len(result) : result[k] = src[c].value
                  \/ /\ Len(result) = 10
                     /\ FirstSeen(src, searchTerm, src[c].value) > seen[10]

C14_Witness ==
    /\ IsArrayCall("getSearchSuggestions")
    /\ searchTerm = "12"
    /\ Len(result) = 10
    /\ LET src == SuggestionSources(transactions.items)
       IN  \E c \in Candidates(src, searchTerm) :
               \A k \in 1..Len(result) : result[k] # src[c].value

\* the warning of the first check that turns the trimmed pattern t down, in
\* the order length, danger, compilation, probe
FirstFailedCheck(t, clk) ==
    IF Len(t) > maxPatternLength THEN "Search pattern too long"
    ELSE IF isPatternDangerous(t) THEN "Potentially dangerous search pattern detected"
    ELSE IF ~regexSyntaxOk(t) THEN "Invalid search pattern:"
    ELSE "Search pattern too slow"

\* C15: compileSearchPattern logs a warning on every path that rejects the
\* pattern (empty or whitespace only, too long, dangerous, syntax error, too
\* slow, probe runtime error), and the reason it reports is that of the
\* first failing check in the order empty, length, danger, compilation,
\* probe.
C15_EveryRejectionWarns ==
    (op = "compileSearchPattern" /\ ~regex.ok)
    => /\ Len(warnings) = 1
       /\ trim(searchTerm) # "" => warnings[1] = FirstFailedCheck(trim(searchTerm), clock)

\* the elapsed time read after test case k is within the budget
WithinBudgetAt(k) == clock[k + 1] - clock[1] <= timeout

\* the test cases at which the loop is left early: regex.test raises, or
\* the check after it finds the budget used up
StopsAt == {k \in 1..Len(testCases) : k = throwsAt \/ ~WithinBudgetAt(k)}

\* C16: testPatternPerformance runs the matcher on the six probes in order
\* and checks the elapsed time after each; at the first check that finds
\* more than 50 ms it returns null without running a further probe, it
\* returns null when a probe raises, and it returns the matcher exactly when
\* all six probes ran with at most 50 ms elapsed at every check.
C16_ProbeStopsAtFirstExcess ==
    (op = "testPatternPerformance" /\ outcome = "return")
    => /\ regex.ok <=> StopsAt = {}
       /\ regex.ok => /\ regex = [ok |-> TRUE, source |-> searchTerm, flags |-> "i"]
                      /\ probesRun = Len(testCases)
       /\ ~regex.ok => /\ probesRun \in StopsAt
                       /\ \A k \in StopsAt : probesRun <= k

C16_Witness ==
    /\ op = "testPatternPerformance"
    /\ outcome = "return"
    /\ throwsAt = NoThrow
    /\ clock[1] = 0 /\ clock[2] = timeout /\ clock[3] = timeout + 1
    /\ ~regex.ok
    /\ probesRun = 2

\* C19: no operation of the engine (searchTransactions, fallbackSearch,
\* advancedSearch, getSearchSuggestions, highlightMatches, parseSearchQuery)
\* modifies the transaction array it is passed or a transaction in it: after
\* the call the argument is as it was passed.
C19_ArgumentLeftAsPassed ==
    op # "init" => argAfter = transactions

C19_Witness ==
    /\ IsArrayCall("searchTransactions")
    /\ searchTerm # ""
    /\ Len(transactions.items) = 2
    /\ transactions.items[1] # transactions.items[2]
    /\ Len(result) = 1
    /\ argAfter = transactions

\* C20: transaction ids are unique in every state that addTransaction,
\* updateTransaction, deleteTransaction and importData reach, with a clock
\* that never goes back but may read the same for two consecutive calls,
\* and with whatever transaction objects the callers supply.
C20_TransactionIdsUnique ==
    \A i, j \in 1..Len(state.transactions) :
        i # j => state.transactions[i].id # state.transactions[j].id

\* the items the regular expression of term matches in one of the four
\* fields, each item judged on its own
MatchedOnItsOwn(items, term) ==
    SelectSeq(items, LAMBDA item :
        \E field \in {"description", "category", "amount", "date"} :
            regexTest([ok |-> TRUE, source |-> term, flags |-> "i"],
                      fieldString(item, field)))

\* C30: SearchEngine.search(items, term) of validators.js returns an item
\* exactly when the regular expression of the term matches its description,
\* category, amount as a string or date, whatever items come before it; of
\* two identical matching items both are returned.
C30_EachItemJudgedOnItsOwn ==
    (op = "search" /\ trim(searchTerm) # "" /\ regexSyntaxOk(searchTerm))
        => result = MatchedOnItsOwn(transactions.items, searchTerm)

\* how many registrations of callback there are in subs
Registrations(subs, callback) ==
    Cardinality({i \in 1..Len(subs) : subs[i] = callback})

\* C21: the function that subscribe(cb) returned removes the registration of
\* that call and no other: the registrations of the other callbacks stay, in
\* their order, and when cb was subscribed twice, one call of one of the two
\* functions leaves the other registration active.
C21_UnsubscribeRemovesOneRegistration ==
    [][call'.method = "unsubscribe" =>
          /\ \A other \in Callbacks \ {call'.arg} :
                Registrations(subscribers', other) = Registrations(subscribers, other)
          /\ Registrations(subscribers', call'.arg) >=
                 Registrations(subscribers, call'.arg) - 1]_vars

Opposite(direction) == IF direction = "asc" THEN "desc" ELSE "asc"

\* C22: setSortConfig(key) without a direction toggles the direction when
\* key is the current sort key, and otherwise sets the new key with the
\* direction 'desc'.
C22_SortTogglesOrStartsDescending ==
    [][(call'.method = "setSortConfig" /\ call'.arg.direction = <<>>) =>
          state'.sortConfig =
              [key |-> call'.arg.key,
               direction |-> IF state.sortConfig.key = call'.arg.key
                             THEN Opposite(state.sortConfig.direction)
                             ELSE "desc"]]_vars

\* the methods that do nothing but call setState
SetStateCallers ==
    { "setSearchTerm", "showNotification", "hideNotification", "setError",
      "clearError", "clearAllErrors" }

\* C23: setState invokes every subscriber once, in the order subscribed, when
\* the merged state differs from the state before, and none when it does
\* not: setSearchTerm with the current term, hideNotification with no
\* notification shown and clearAllErrors with no errors notify nobody.
C23_NotifiesExactlyOnChange ==
    [][call'.method \in SetStateCallers =>
          invoked' = IF state' # state THEN subscribers' ELSE <<>>]_vars

\* a call that changed nothing was made with subscribers there, and none ran
C23_Witness ==
    /\ call.method \in {"setSearchTerm", "hideNotification", "clearAllErrors"}
    /\ Len(subscribers) >= 2
    /\ invoked = <<>>

\* the items of an imported file that are structurally valid, in file order
WellFormed(items) == SelectSeq(items, LAMBDA tx : tx.amountType = "number")

\* transaction t is item tx of the file under a new id
IsImportOf(t, tx) ==
    /\ t.description = tx.description
    /\ t.amount = tx.amount
    /\ t.category = tx.category
    /\ t.date = tx.date

\* C24: importData succeeds for a text that parses to an array, or to an
\* object with a transactions array, when the write to storage succeeds;
\* then state.transactions is the previous list followed by the structurally
\* valid imported items in the order of the file, the returned count is the
\* number appended and the same list is in storage.  On any failure it
\* returns success: false and state.transactions is unchanged.
C24_ImportAppendsOrLeavesUnchanged ==
    [][call'.method = "importData" =>
          LET before == state.transactions
              after == state'.transactions
              valid == WellFormed(call'.arg.items)
          IN  /\ ret'.success <=>
                     (call'.arg.kind \in {"array", "object"} /\ failures' = failures)
              /\ IF ret'.success
                 THEN /\ Len(after) = Len(before) + Len(valid)
                      /\ SubSeq(after, 1, Len(before)) = before
                      /\ \A k \in 1..Len(valid) :
                            IsImportOf(after[Len(before) + k], valid[k])
                      /\ ret'.count = Len(valid)
                      /\ localStorage' = after
                 ELSE after = before]_vars

\* a file of a valid and an invalid item was imported into a list of one
C24_Witness ==
    /\ call.method = "importData"
    /\ ret.success
    /\ Len(call.arg.items) = 2
    /\ ret.count = 1
    /\ Len(state.transactions) = 2
    /\ state.transactions[1].description # "Lunch"

\* no transaction of the list has the id
UnknownId(list, id) == \A i \in 1..Len(list) : list[i].id # id

\* C25: updateTransaction and deleteTransaction called with an id that no
\* transaction has return { success: false, error: 'Transaction not found' },
\* write nothing to storage and leave state.transactions and editingId as
\* they were.
C25_UnknownIdChangesNothing ==
    [][(/\ call'.method \in {"updateTransaction", "deleteTransaction"}
        /\ UnknownId(state.transactions, call'.arg)) =>
          /\ ret' = [success |-> FALSE, error |-> "Transaction not found"]
          /\ localStorage' = localStorage
          /\ state'.transactions = state.transactions
          /\ state'.editingId = state.editingId]_vars

\* an id that is not there was used while a transaction was being edited
C25_Witness ==
    /\ call.method \in {"updateTransaction", "deleteTransaction"}
    /\ UnknownId(state.transactions, call.arg)
    /\ ret = [success |-> FALSE, error |-> "Transaction not found"]
    /\ Len(state.transactions) = 2
    /\ state.editingId = state.transactions[2].id

\* C26: the auto-hide timer of one showNotification call never clears a
\* notification that a later showNotification call has set, not even one
\* with the same message: when the oldest timer runs while the notification
\* shown comes from a later call, the notification stays.
C26_TimerLeavesLaterNotification ==
    [][(call'.method = "timeout" /\ shownBy > 1) =>
          state'.notification = state.notification]_vars

\* C27: in every state that startEditing, cancelEditing, addTransaction,
\* updateTransaction, deleteTransaction, navigateTo, importData and
\* clearAllData reach, editingId is null or the id of a transaction that is
\* in state.transactions.
C27_EditingIdIsOfPresentTransaction ==
    state.editingId = "" \/ ~UnknownId(state.transactions, state.editingId)

\* C28: when Storage.saveTransactions throws, addTransaction,
\* updateTransaction and deleteTransaction return { success: false } and
\* state.transactions in memory is exactly what it was before the call.
C28_FailedSaveLeavesMemoryUnchanged ==
    [][(/\ call'.method \in {"addTransaction", "updateTransaction", "deleteTransaction"}
        /\ failures' # failures) =>
          /\ ~ret'.success
          /\ state'.transactions = state.transactions]_vars

\* C29: getFilteredTransactions only reads: whatever the search term (the
\* empty one too) and the sort configuration, state.transactions holds the
\* same elements in the same order after the call as before it.
C29_FilteredViewLeavesStateUnchanged ==
    [][call'.method = "getFilteredTransactions" =>
          state'.transactions = state.transactions]_vars

=============================================================================
